---------------------------- MODULE Spec2Model ----------------------------
(***************************************************************************)
(* Verification model of prompter-live-go.  The repository holds several   *)
(* generations of the same program; the model keeps them apart:            *)
(*                                                                         *)
(*   SpecSan    the three sanitizeMessage functions (pure functions)       *)
(*   SpecSeq    the sequential pipeline  internal/pipeline/lowlatency.go   *)
(*              on the aggregating session internal/gemini/live.go:16-139  *)
(*   SpecConc   the concurrent pipeline (Run / handleReceive /             *)
(*              handleLiveChatPollingAndInput) on the session wrapper of   *)
(*              internal/gemini/live.go:277-418                            *)
(*   SpecPipe   both pipelines, the variant chosen in the initial state    *)
(*   SpecFetch  youtube.Client.FetchLiveChatMessages with its ID memory    *)
(*                                                                         *)
(* A string is a sequence of codepoints; a codepoint is named by a token   *)
(* ("BQ" backquote, "LF" newline, "U+3042" a 3-byte letter, ...) and has a *)
(* UTF-8 width in bytes.                                                   *)
(***************************************************************************)
EXTENDS Integers, Sequences, FiniteSets, TLC

VARIABLES
    sanIn,      \* sanitizer: the message handed to the function
    sanFn,      \* sanitizer: which function ran ("none" before the call)
    sanOut,     \* sanitizer: [kind |-> "none" | "ok" | "panic", text |-> string]
    \* ---- both pipelines
    cancelled,    \* ctx.Done() is closed
    runState,     \* "off" | "running" | "returned": the goroutine that called Run
    runResult,    \* what Run returned ("none" while it runs)
    established,  \* the session exists (StartSession / Connect succeeded)
    closeCount,   \* number of calls of session.Close()
    fetchFails,   \* failed FetchLiveChatMessages calls in a row (history)
    exchangeFailed,  \* a post or an AI exchange has failed (history)
    movedOn,         \* a Send or a poll was made after such a failure (history)
    \* ---- sequential pipeline (internal/pipeline/lowlatency.go)
    pc,           \* where Run / runLoop / handleAIResponse stands
    sysInstr,     \* geminiConfig.SystemInstruction != ""
    lastPoll,     \* runLoop: outcome of the last poll, the interval it suggested,
                  \* and the delay waited before it (history)
    nextPollDelay,\* runLoop: nextPollDelay, in seconds
    batch,        \* comments of the current poll not yet handled
    curEx,        \* exchange started by the latest Send of the pipeline
    pending,      \* response handleAIResponse is about to post
    \* ---- aggregating session (internal/gemini/live.go:16-139)
    nextEx,       \* number of Send calls so far
    streams,      \* the stream goroutine of each exchange: [pc, text, out]
    responseChan, \* chan *LowLatencyResponse, capacity 1
    doneChan,     \* chan error, capacity 1: the exchange each io.EOF came from
    termCount,    \* terminal signals RecvResponse returned, per exchange (history)
    \* ---- concurrent pipeline (unnamed/part_000) on the session wrapper
    cPc,          \* the control loop of Run
    rcvPc,        \* handleReceive
    recvCount,    \* mockSession.recvCount
    pollPc,       \* handleLiveChatPollingAndInput
    attempt,      \* its retry loop variable
    waits,        \* delays waited out between the attempts of this tick (history)
    cBatch,       \* comments of the current poll not yet sent
    errorChan,    \* chan error, capacity 1
    postsPending, \* PostComment goroutines that have not returned
    \* ---- youtube.Client of unnamed/part_006 and its callers' clock
    fPc,                   \* "off", or "idle" between calls
    now,                   \* time.Now(), in hours
    liveChatID,            \* Client.liveChatID
    nextPageToken,         \* Client.nextPageToken
    lastFetchedCommentIDs, \* Client.lastFetchedCommentIDs: id -> time
    lastSkipped,           \* ids the last call skipped as already fetched
    lastCall,              \* the error the last call returned and whether it called
                           \* findLiveChatID and List; for a failed call also the comments
                           \* and interval returned with the error (history; the
                           \* comments of a successful call are in lastReturn)
    prevReturn,            \* per id: time of the return before the last (history)
    lastReturn,            \* per id: time of the last return (history)
    endedAt,               \* time of the last call that reported the chat ended (history)
    \* ---- the text of one exchange, from the provider to the pipeline
    txVariant,    \* "off" | "aggregating" | "streaming": the session variant
    txInput,      \* chunks stream.Next() has yet to return
    txStreamed,   \* text parts the provider has streamed so far (history)
    txBuilder,    \* responseBuilder, respectively currentText
    txEvents,     \* texts of the responses with Done false handed over
    txComplete,   \* the response with Done true handed over
    \* ---- the concurrent pipeline of unnamed/part_001 on a geminiLiveSession
    mu,           \* geminiLiveSession.mu: "free", or the unit that holds it
    rcvResp,      \* the response handleReceive got from RecvResponse
    \* ---- one AI response on its way to PostComment
    postBy,       \* the code that handled the response, "none" before
    postResp,     \* the text of the response
    dryRun,       \* the dryRun argument of FetchAndProcessComments
    postSan,      \* what the sanitizer returned, NoResult when none was called
    postCall,     \* the call of PostComment made for the response
    \* ---- callers of one session's Close
    closed,       \* the session variant, the Close calls made and what the last
                  \* returned (history)
    \* ---- one batch of comments on its way through ProcessNextBatch or
    \*      FetchAndProcessComments
    bBy,          \* "off", or the function that handles the batch
    bDryRun,      \* its dryRun flag
    bIn,          \* what GenerateResponse returns for each comment of the batch
    bLog,         \* per comment handled: whether a response was generated, the
                  \* sanitized response, the PostComment calls made (history)
    \* ---- the comments of one poll on their way to the session
    oPc,          \* "off", "poll" at time.After, "loop" in the loop over comments
    publishedAt,  \* Snippet.PublishedAt of each comment of the source
    oSeen,        \* Client.lastFetchedCommentIDs
    oComments,    \* comments of the poll not yet submitted
    oSubmitted,   \* comments of the poll submitted with Send, in order (history)
    rPollPc,      \* poll unit inside FetchLiveChatMessages: "off", "call", "assignID",
                  \* "list", "clearID", "return"
    rPolls,       \* number of calls of FetchLiveChatMessages that have returned
    rPost,        \* the goroutines of Run that call PostComment, one record each
    streamChan,   \* streaming session: the channel held by the field s.streamChan
                  \* (0 is the one of the constructor, k the one made by the k-th Send)
    chClosed,     \* streaming session: the stream channels that are closed
    sDoneChan,    \* streaming session: contents of the one-slot doneChan
    gor,          \* streaming session: the stream goroutine of each Send
    chPanic,      \* "off", "none", or the run-time panic that ended the program
    tcOn,           \* the timestamp-cursor client exists
    lastCommentTime,\* YouTubeClient.lastCommentTime (0 is the zero time)
    tcPublishedAt,  \* Snippet.PublishedAt of each comment
    tcChat,         \* the comments the live chat holds
    tcListed,       \* comments listed by some successful call (history)
    tcReturns       \* how many calls returned each comment (history)

sanVars == <<sanIn, sanFn, sanOut>>

runVars == <<cancelled, runState, runResult, established, closeCount,
             fetchFails, exchangeFailed, movedOn>>

seqVars == <<pc, sysInstr, lastPoll, nextPollDelay, batch, curEx, pending>>

sessVars == <<nextEx, streams, responseChan, doneChan, termCount>>

concVars == <<cPc, rcvPc, recvCount, pollPc, attempt, waits, cBatch, errorChan,
              postsPending>>

fetchVars == <<fPc, now, liveChatID, nextPageToken, lastFetchedCommentIDs,
               lastSkipped, lastCall, prevReturn, lastReturn, endedAt>>

textVars == <<txVariant, txInput, txStreamed, txBuilder, txEvents, txComplete>>

lockVars == <<mu, rcvResp>>

postVars == <<postBy, postResp, dryRun, postSan, postCall>>

closeVars == <<closed>>

batchVars == <<bBy, bDryRun, bIn, bLog>>

orderVars == <<oPc, publishedAt, oSeen, oComments, oSubmitted>>

raceVars == <<rPollPc, rPolls, rPost>>

chanVars == <<streamChan, chClosed, sDoneChan, gor, chPanic>>

cursorVars == <<tcOn, lastCommentTime, tcPublishedAt, tcChat, tcListed, tcReturns>>

vars == <<sanVars, runVars, seqVars, sessVars, concVars, fetchVars, textVars, lockVars,
          postVars,
          closeVars,
          batchVars,
          orderVars,
          raceVars,
          chanVars,
          cursorVars>>

(***************************************************************************)
(* Strings                                                                 *)
(***************************************************************************)

\* One byte of a multi-byte codepoint cut in half by a byte slice: Go counts
\* and ranges over it as one rune (utf8.RuneError, width 1).
BadByte == "BADBYTE"

\* UTF-8 encoded width of a codepoint token.
Width(c) ==
    CASE c = "U+00E9"  -> 2      \* e acute
      [] c = "U+3042"  -> 3      \* hiragana a
      [] c = "U+1F600" -> 4      \* emoji
      [] OTHER         -> 1      \* ASCII and BadByte

SetMin(S) == CHOOSE x \in S : \A y \in S : x <= y

SetMax(S) == CHOOSE x \in S : \A y \in S : x >= y

\* len(s) of Go: the number of bytes (summed by halves, which keeps the
\* evaluation shallow on long strings).
RECURSIVE ByteLen(_)
ByteLen(s) ==
    IF s = <<>> THEN 0
    ELSE IF Len(s) = 1 THEN Width(s[1])
    ELSE LET h == Len(s) \div 2
         IN  ByteLen(SubSeq(s, 1, h)) + ByteLen(SubSeq(s, h + 1, Len(s)))

\* utf8.RuneCountInString(s): one per codepoint, one per invalid byte.
RuneCountInString(s) == Len(s)

RepeatBad(n) == [i \in 1..n |-> BadByte]

\* s[:n] of Go on a string: the first n BYTES.  A codepoint that straddles
\* the cut leaves its leading bytes behind as invalid bytes.
RECURSIVE ByteSlice(_, _)
ByteSlice(s, n) ==
    IF n <= 0 \/ s = <<>> THEN <<>>
    ELSE IF ByteLen(s) <= n THEN s
    ELSE IF Len(s) = 1 THEN RepeatBad(n)
    ELSE LET h == Len(s) \div 2
             l == SubSeq(s, 1, h)
         IN  IF ByteLen(l) > n
             THEN ByteSlice(l, n)
             ELSE l \o ByteSlice(SubSeq(s, h + 1, Len(s)), n - ByteLen(l))

IsSpace(c) == c \in {" ", "LF", "TAB"}

\* strings.TrimSpace
TrimSpace(s) ==
    LET solid == {i \in 1..Len(s) : ~IsSpace(s[i])}
    IN  IF solid = {} THEN <<>> ELSE SubSeq(s, SetMin(solid), SetMax(solid))

\* strings.ReplaceAll(s, from, to) for single codepoints
ReplaceAll(s, from, to) == [i \in 1..Len(s) |-> IF s[i] = from THEN to ELSE s[i]]

IsFenceAt(s, i) ==
    /\ i >= 1
    /\ i + 2 <= Len(s)
    /\ s[i] = "BQ" /\ s[i + 1] = "BQ" /\ s[i + 2] = "BQ"

\* The least j >= i where a fence (three backquotes) starts, 0 when there is
\* none.
NextFence(s, i) ==
    LET at == {j \in i..Len(s) : IsFenceAt(s, j)}
    IN  IF at = {} THEN 0 ELSE SetMin(at)

\* The pattern (?s)FENCE.*?FENCE with ReplaceAllString(message, ""): the
\* leftmost match runs from the first fence to the nearest fence that starts
\* after it; the scan goes on behind the match.  When the first fence has no
\* closing fence no later one has.
RECURSIVE RemoveCodeBlocks(_)
RemoveCodeBlocks(s) ==
    LET open == NextFence(s, 1)
        close == IF open = 0 THEN 0 ELSE NextFence(s, open + 3)
    IN  IF close = 0 THEN s
        ELSE SubSeq(s, 1, open - 1)
               \o RemoveCodeBlocks(SubSeq(s, close + 3, Len(s)))

(***************************************************************************)
(* The sanitizers                                                          *)
(***************************************************************************)

youtubeMaxCommentLength == 500

youtubeCommentLimit == 500

suffix == <<".", ".", ".">>

Returned(t) == [kind |-> "ok", text |-> t]

Panicked == [kind |-> "panic", text |-> <<>>]

NoResult == [kind |-> "none", text |-> <<>>]

\* The length cut shared by both pipeline sanitizers, without the re-check
\* that makes room for the suffix.
truncateNoRoom(message) ==
    IF RuneCountInString(message) <= youtubeMaxCommentLength
    THEN message
    ELSE SubSeq(message, 1, youtubeMaxCommentLength) \o suffix

\* unnamed/part_000:98-115 (and part_001:130-143): the length cut.
truncate(message) ==
    IF RuneCountInString(message) <= youtubeMaxCommentLength
    THEN message
    ELSE LET runes == message
             trimmedRunes == SubSeq(runes, 1, youtubeMaxCommentLength)
             fitted ==
                 IF RuneCountInString(trimmedRunes) + RuneCountInString(suffix)
                        > youtubeMaxCommentLength
                 THEN SubSeq(runes, 1,
                             youtubeMaxCommentLength - RuneCountInString(suffix))
                 ELSE trimmedRunes
         IN  fitted \o suffix

\* unnamed/part_000 sanitizeMessage: the length cut alone.
sanitizeMessage(message) == Returned(truncate(message))

\* unnamed/part_001 sanitizeMessage: the third pattern it compiles,
\* (\*\*|__)(.*?)\1, has a backreference, which the regexp package of Go rejects;
\* regexp.MustCompile panics on it in every call, after the two code
\* patterns have run and before anything is returned.
sanitizeMessageMarkdown(message) == Panicked

\* The text the processor's sanitizer has before it looks at the length.
cleanedProcessor(message) ==
    ReplaceAll(TrimSpace(RemoveCodeBlocks(message)), "LF", " ")

\* internal/apis/gemini_client.go (package live_processor) sanitizeMessage.
sanitizeMessageProcessor(message) ==
    LET cleaned == cleanedProcessor(message)
    IN  Returned(IF ByteLen(cleaned) > youtubeCommentLimit
                 THEN ByteSlice(cleaned, youtubeCommentLimit)
                 ELSE cleaned)

(***************************************************************************)
(* State shared by the pipelines, and the states in which a part is absent *)
(***************************************************************************)

MaxFailStreak == 4  \* failed polls in a row that are followed

MaxBatch == 2       \* comments one poll returns

MaxSends == 3       \* Send calls in a run

MaxChunks == 2      \* text chunks the provider streams in one exchange

ChunkTexts == {"x"}

maxRetries == 3

rediscoveryDelay == 30

PollingInterval == 5     \* pipelineConfig.PollingInterval, in seconds

SuggestedIntervals == {0, 2}   \* response.PollingIntervalMillis, in seconds

Exchanges == 1..MaxSends

Range(f) == {f[i] : i \in DOMAIN f}

NoStream == [pc |-> "unborn", text |-> <<>>, out |-> "none"]

NoPoll == [outcome |-> "none", suggested |-> 0, waited |-> 0]

NoPending == [ex |-> 0, kind |-> "none"]

SanOff == sanIn = <<>> /\ sanFn = "off" /\ sanOut = NoResult

RunOff ==
    /\ cancelled = FALSE
    /\ runState = "off"
    /\ runResult = "none"
    /\ established = FALSE
    /\ closeCount = 0
    /\ fetchFails = 0
    /\ exchangeFailed = FALSE
    /\ movedOn = FALSE

SeqOff ==
    /\ pc = "off"
    /\ sysInstr = FALSE
    /\ lastPoll = NoPoll
    /\ nextPollDelay = 0
    /\ batch = 0
    /\ curEx = 0
    /\ pending = NoPending

SessOff ==
    /\ nextEx = 0
    /\ streams = [e \in Exchanges |-> NoStream]
    /\ responseChan = <<>>
    /\ doneChan = <<>>
    /\ termCount = [e \in Exchanges |-> 0]

\* The response RecvResponse makes up when doneChan alone was signalled
\* (live.go:125-127).
DoneOnly == [ex |-> 0, kind |-> "eof", text |-> <<>>]

LockOff ==
    /\ mu = "free"
    /\ rcvResp = DoneOnly

NoPost == [made |-> FALSE, text |-> <<>>]

NoClose == [session |-> "none", calls |-> 0, ret |-> "none"]

CloseOff == closed = NoClose

CursorOff ==
    /\ tcOn = FALSE
    /\ lastCommentTime = 0
    /\ tcPublishedAt = <<>>
    /\ tcChat = {}
    /\ tcListed = {}
    /\ tcReturns = <<>>

ChanOff ==
    /\ streamChan = 0
    /\ chClosed = {}
    /\ sDoneChan = <<>>
    /\ gor = <<>>
    /\ chPanic = "off"

RaceOff ==
    /\ rPollPc = "off"
    /\ rPolls = 0
    /\ rPost = <<>>

OrderOff ==
    /\ oPc = "off"
    /\ publishedAt = <<>>
    /\ oSeen = <<>>
    /\ oComments = <<>>
    /\ oSubmitted = <<>>

BatchOff ==
    /\ bBy = "off"
    /\ bDryRun = FALSE
    /\ bIn = <<>>
    /\ bLog = <<>>

PostOff ==
    /\ postBy = "off"
    /\ postResp = <<>>
    /\ dryRun = FALSE
    /\ postSan = NoResult
    /\ postCall = NoPost

NoCompletion == [done |-> FALSE, text |-> <<>>]

TextOff ==
    /\ txVariant = "off"
    /\ txInput = <<>>
    /\ txStreamed = <<>>
    /\ txBuilder = <<>>
    /\ txEvents = <<>>
    /\ txComplete = NoCompletion

Never == -1

MaxIDs == 2         \* distinct comment ids the source has

CommentIDs == 1..MaxIDs

NoCall ==
    [err |-> "none", comments |-> 0, interval |-> 0, lookedUp |-> FALSE, listed |-> FALSE]

FetchOff ==
    /\ fPc = "off"
    /\ now = 0
    /\ liveChatID = ""
    /\ nextPageToken = ""
    /\ lastFetchedCommentIDs = <<>>
    /\ lastSkipped = {}
    /\ lastCall = NoCall
    /\ prevReturn = [id \in CommentIDs |-> Never]
    /\ lastReturn = [id \in CommentIDs |-> Never]
    /\ endedAt = Never

ConcOff ==
    /\ cPc = "off"
    /\ rcvPc = "off"
    /\ recvCount = 0
    /\ pollPc = "off"
    /\ attempt = 0
    /\ waits = <<>>
    /\ cBatch = 0
    /\ errorChan = <<>>
    /\ postsPending = 0

RunReturnsNoCloseOnCancel(res) ==
    /\ runState' = "returned"
    /\ runResult' = res
    /\ closeCount' = IF res = "cancelled" THEN closeCount ELSE closeCount + 1

\* Run returns res.  Both pipelines register "defer session.Close()" right
\* after the session is established, so the return runs Close once.
RunReturns(res) ==
    /\ runState' = "returned"
    /\ runResult' = res
    /\ closeCount' = closeCount + 1

\* cancel() of the caller (cmd/run.go:68: SIGINT or SIGTERM).
Cancel ==
    /\ runState = "running"
    /\ ~cancelled
    /\ cancelled' = TRUE
    /\ UNCHANGED <<runState, runResult, established, closeCount, fetchFails,
                   exchangeFailed, movedOn>>
    /\ UNCHANGED <<sanVars, fetchVars, textVars, lockVars, seqVars, sessVars, concVars, postVars, closeVars, batchVars, orderVars, raceVars, chanVars, cursorVars>>

(***************************************************************************)
(* The aggregating session: geminiLiveSession of live.go:16-139            *)
(***************************************************************************)

\* Send (live.go:50-108): takes and releases mu, starts the stream goroutine
\* of a new exchange and returns nil.  It never returns an error.
Send(ex) ==
    /\ ex = nextEx + 1
    /\ nextEx' = ex
    /\ streams' = [streams EXCEPT ![ex] = [pc |-> "next", text |-> <<>>, out |-> "none"]]

\* stream.Next() returns a chunk with a text part (live.go:81-88).
StreamChunk(ex) ==
    /\ streams[ex].pc = "next"
    /\ Len(streams[ex].text) < MaxChunks
    /\ \E c \in ChunkTexts :
          streams' = [streams EXCEPT ![ex].text = Append(@, c)]
    /\ UNCHANGED <<nextEx, responseChan, doneChan, termCount>>
    /\ UNCHANGED <<sanVars, fetchVars, textVars, lockVars, runVars, seqVars, concVars, postVars, closeVars, batchVars, orderVars, raceVars, chanVars, cursorVars>>

\* stream.Next() returns io.EOF (live.go:71-73): the loop ends and the
\* goroutine goes on to send the accumulated text, or an empty response.
StreamEOF(ex) ==
    /\ streams[ex].pc = "next"
    /\ streams' = [streams EXCEPT ![ex].pc = "sendResp",
                                  ![ex].out = IF streams[ex].text # <<>>
                                               THEN "text" ELSE "empty"]
    /\ UNCHANGED <<nextEx, responseChan, doneChan, termCount>>
    /\ UNCHANGED <<sanVars, fetchVars, textVars, lockVars, runVars, seqVars, concVars, postVars, closeVars, batchVars, orderVars, raceVars, chanVars, cursorVars>>

\* stream.Next() returns another error (live.go:74-78): the goroutine goes
\* on to send a response whose text is "Error: ...".
StreamError(ex) ==
    /\ streams[ex].pc = "next"
    /\ streams' = [streams EXCEPT ![ex].pc = "sendResp", ![ex].out = "error"]
    /\ UNCHANGED <<nextEx, responseChan, doneChan, termCount>>
    /\ UNCHANGED <<sanVars, fetchVars, textVars, lockVars, runVars, seqVars, concVars, postVars, closeVars, batchVars, orderVars, raceVars, chanVars, cursorVars>>

\* s.responseChan <- response (live.go:76, 94, 102); blocks while the
\* channel holds a response.
StreamSendResponse(ex) ==
    /\ streams[ex].pc = "sendResp"
    /\ Len(responseChan) < 1
    /\ responseChan' = Append(responseChan,
                              [ex |-> ex, kind |-> streams[ex].out,
                               text |-> IF streams[ex].out = "text"
                                        THEN streams[ex].text ELSE <<>>])
    /\ streams' = [streams EXCEPT ![ex] = [pc |-> "sendDone", text |-> <<>>, out |-> "none"]]
    /\ UNCHANGED <<nextEx, doneChan, termCount>>
    /\ UNCHANGED <<sanVars, fetchVars, textVars, lockVars, runVars, seqVars, concVars, postVars, closeVars, batchVars, orderVars, raceVars, chanVars, cursorVars>>

\* The deferred s.doneChan <- io.EOF (live.go:59-62); blocks while the
\* channel holds an earlier io.EOF.
StreamSendDone(ex) ==
    /\ streams[ex].pc = "sendDone"
    /\ Len(doneChan) < 1
    /\ doneChan' = Append(doneChan, ex)
    /\ streams' = [streams EXCEPT ![ex].pc = "exited"]
    /\ UNCHANGED <<nextEx, responseChan, termCount>>
    /\ UNCHANGED <<sanVars, fetchVars, textVars, lockVars, runVars, seqVars, concVars, postVars, closeVars, batchVars, orderVars, raceVars, chanVars, cursorVars>>

\* RecvResponse (live.go:111-134): what a call can return in the current
\* state, with the channels it leaves behind.  of is the exchange whose
\* terminal signal the caller is handed.  The set is empty while the call
\* blocks.
RecvResponse ==
    (IF doneChan # <<>>
     THEN {IF responseChan # <<>>
           THEN [resp |-> Head(responseChan), err |-> "nil",
                 rc |-> Tail(responseChan), dc |-> Tail(doneChan),
                 of |-> Head(responseChan).ex]
           ELSE [resp |-> DoneOnly, err |-> "EOF",
                 rc |-> responseChan, dc |-> Tail(doneChan),
                 of |-> Head(doneChan)]}
     ELSE {})
    \cup
    (IF responseChan # <<>>
     THEN {[resp |-> Head(responseChan), err |-> "nil",
            rc |-> Tail(responseChan), dc |-> doneChan,
            of |-> Head(responseChan).ex]}
     ELSE {})

\* The channels and the history after RecvResponse returned r.
Received(r) ==
    /\ responseChan' = r.rc
    /\ doneChan' = r.dc
    /\ termCount' = [termCount EXCEPT ![r.of] = @ + 1]

(***************************************************************************)
(* The sequential pipeline: internal/pipeline/lowlatency.go                *)
(***************************************************************************)

InitSeq ==
    /\ SanOff
    /\ FetchOff
    /\ TextOff
    /\ LockOff
    /\ PostOff
    /\ ConcOff
    /\ cancelled = FALSE
    /\ runState = "running"
    /\ runResult = "none"
    /\ established = FALSE
    /\ closeCount = 0
    /\ fetchFails = 0
    /\ exchangeFailed = FALSE
    /\ movedOn = FALSE
    /\ pc = "start"
    /\ sysInstr \in BOOLEAN
    /\ lastPoll = NoPoll
    /\ nextPollDelay = 0
    /\ batch = 0
    /\ curEx = 0
    /\ pending = NoPending
    /\ SessOff
    /\ CloseOff
    /\ BatchOff
    /\ OrderOff
    /\ RaceOff
    /\ ChanOff
    /\ CursorOff

\* Run, lowlatency.go:43-74 up to the call of runLoop: StartSession (it
\* always succeeds, internal/gemini/client.go:52-64), defer Close, and the
\* Send of the system instruction when one is configured.  runLoop starts
\* with nextPollDelay = PollingInterval (line 79).
SeqRunStart ==
    /\ pc = "start"
    /\ established' = TRUE
    /\ nextPollDelay' = PollingInterval
    /\ IF sysInstr
       THEN /\ Send(nextEx + 1)
            /\ curEx' = nextEx + 1
            /\ pc' = "sysRecv"
       ELSE /\ UNCHANGED <<nextEx, streams, curEx>>
            /\ pc' = "select"
    /\ UNCHANGED <<cancelled, runState, runResult, closeCount, fetchFails,
                   exchangeFailed, movedOn>>
    /\ UNCHANGED <<sysInstr, lastPoll, batch, pending>>
    /\ UNCHANGED <<responseChan, doneChan, termCount>>
    /\ UNCHANGED <<sanVars, fetchVars, textVars, lockVars, concVars, postVars, closeVars, batchVars, orderVars, raceVars, chanVars, cursorVars>>

\* Run without the RecvResponse of lowlatency.go:65: the answer stays in
\* the session.
SeqSysRecvSkipped ==
    /\ pc = "sysRecv"
    /\ pc' = "select"
    /\ UNCHANGED <<nextEx, streams, responseChan, doneChan, termCount>>
    /\ UNCHANGED runVars
    /\ UNCHANGED <<sysInstr, lastPoll, nextPollDelay, batch, curEx, pending>>
    /\ UNCHANGED <<sanVars, fetchVars, textVars, lockVars, concVars, postVars,
                   closeVars, batchVars, orderVars, raceVars, chanVars, cursorVars>>

\* lowlatency.go:65-69: the RecvResponse that waits for the answer to the
\* system instruction; the answer and any error are dropped.
SeqSysRecv ==
    /\ pc = "sysRecv"
    /\ \E r \in RecvResponse : Received(r)
    /\ pc' = "select"
    /\ UNCHANGED <<nextEx, streams>>
    /\ UNCHANGED runVars
    /\ UNCHANGED <<sysInstr, lastPoll, nextPollDelay, batch, curEx, pending>>
    /\ UNCHANGED <<sanVars, fetchVars, textVars, lockVars, concVars, postVars, closeVars, batchVars, orderVars, raceVars, chanVars, cursorVars>>

\* runLoop, lowlatency.go:83-86: case <-ctx.Done().
SeqReturnCancelled ==
    /\ pc = "select"
    /\ cancelled
    /\ RunReturns("cancelled")
    /\ pc' = "returned"
    /\ UNCHANGED <<cancelled, established, fetchFails, exchangeFailed, movedOn>>
    /\ UNCHANGED <<sysInstr, lastPoll, nextPollDelay, batch, curEx, pending>>
    /\ UNCHANGED <<sanVars, fetchVars, textVars, lockVars, sessVars, concVars, postVars, closeVars, batchVars, orderVars, raceVars, chanVars, cursorVars>>

\* The bookkeeping of one FetchLiveChatMessages call made by a pipeline.
Polled(failed) ==
    /\ fetchFails' = IF failed THEN fetchFails + 1 ELSE 0
    /\ movedOn' = (movedOn \/ exchangeFailed)

SeqPollEndedKeepsDelay ==
    /\ pc = "select"
    /\ Polled(FALSE)
    /\ nextPollDelay' = nextPollDelay
    /\ lastPoll' = [outcome |-> "ended", suggested |-> 0, waited |-> nextPollDelay]
    /\ UNCHANGED <<cancelled, runState, runResult, established, closeCount, exchangeFailed>>
    /\ UNCHANGED <<pc, sysInstr, batch, curEx, pending>>
    /\ UNCHANGED <<sanVars, fetchVars, textVars, lockVars, sessVars, concVars, postVars, closeVars, batchVars, orderVars, raceVars, chanVars, cursorVars>>

\* runLoop, lowlatency.go:87-100: the timer fires and the poll returns
\* ErrLiveChatEnded.
SeqPollEnded ==
    /\ pc = "select"
    /\ Polled(FALSE)
    /\ nextPollDelay' = rediscoveryDelay
    /\ lastPoll' = [outcome |-> "ended", suggested |-> 0, waited |-> nextPollDelay]
    /\ UNCHANGED <<cancelled, runState, runResult, established, closeCount, exchangeFailed>>
    /\ UNCHANGED <<pc, sysInstr, batch, curEx, pending>>
    /\ UNCHANGED <<sanVars, fetchVars, textVars, lockVars, sessVars, concVars, postVars, closeVars, batchVars, orderVars, raceVars, chanVars, cursorVars>>

\* runLoop that falls back to the configured interval after a failed poll.
SeqPollErrorRestoresInterval ==
    /\ pc = "select"
    /\ fetchFails < MaxFailStreak
    /\ Polled(TRUE)
    /\ nextPollDelay' = PollingInterval
    /\ lastPoll' = [outcome |-> "failed", suggested |-> 0, waited |-> nextPollDelay]
    /\ UNCHANGED <<cancelled, runState, runResult, established, closeCount, exchangeFailed>>
    /\ UNCHANGED <<pc, sysInstr, batch, curEx, pending>>
    /\ UNCHANGED <<sanVars, fetchVars, textVars, lockVars, sessVars, concVars, postVars,
                   closeVars, batchVars, orderVars, raceVars, chanVars, cursorVars>>

\* runLoop, lowlatency.go:101-103: the poll returns another error; it is
\* logged and the loop waits nextPollDelay again.
SeqPollError ==
    /\ pc = "select"
    /\ fetchFails < MaxFailStreak
    /\ Polled(TRUE)
    /\ lastPoll' = [outcome |-> "failed", suggested |-> 0, waited |-> nextPollDelay]
    /\ UNCHANGED <<cancelled, runState, runResult, established, closeCount, exchangeFailed>>
    /\ UNCHANGED <<pc, sysInstr, nextPollDelay, batch, curEx, pending>>
    /\ UNCHANGED <<sanVars, fetchVars, textVars, lockVars, sessVars, concVars, postVars, closeVars, batchVars, orderVars, raceVars, chanVars, cursorVars>>

SeqPollOkDefaultOnZero ==
    /\ pc = "select"
    /\ Polled(FALSE)
    /\ \E n \in 0..MaxBatch, pollingInterval \in SuggestedIntervals :
          /\ nextPollDelay' = IF pollingInterval > 0 THEN pollingInterval
                              ELSE PollingInterval
          /\ lastPoll' = [outcome |-> "ok", suggested |-> pollingInterval,
                          waited |-> nextPollDelay]
          /\ batch' = n
          /\ pc' = IF n > 0 THEN "send" ELSE "select"
    /\ UNCHANGED <<cancelled, runState, runResult, established, closeCount, exchangeFailed>>
    /\ UNCHANGED <<sysInstr, curEx, pending>>
    /\ UNCHANGED <<sanVars, fetchVars, textVars, lockVars, sessVars, concVars, postVars, closeVars, batchVars, orderVars, raceVars, chanVars, cursorVars>>

\* runLoop, lowlatency.go:106-114: the poll succeeds with n comments and a
\* suggested interval.
SeqPollOk ==
    /\ pc = "select"
    /\ Polled(FALSE)
    /\ \E n \in 0..MaxBatch, pollingInterval \in SuggestedIntervals :
          /\ nextPollDelay' = IF pollingInterval > 0 THEN pollingInterval
                              ELSE nextPollDelay
          /\ lastPoll' = [outcome |-> "ok", suggested |-> pollingInterval,
                          waited |-> nextPollDelay]
          /\ batch' = n
          /\ pc' = IF n > 0 THEN "send" ELSE "select"
    /\ UNCHANGED <<cancelled, runState, runResult, established, closeCount, exchangeFailed>>
    /\ UNCHANGED <<sysInstr, curEx, pending>>
    /\ UNCHANGED <<sanVars, fetchVars, textVars, lockVars, sessVars, concVars, postVars, closeVars, batchVars, orderVars, raceVars, chanVars, cursorVars>>

\* The loop over the comments goes to the next comment, or back to select.
NextComment ==
    /\ batch' = batch - 1
    /\ pc' = IF batch - 1 > 0 THEN "send" ELSE "select"

\* runLoop, lowlatency.go:114-128: Send of the next comment.  Send returns
\* nil, so the loop goes on to handleAIResponse.
SeqSend ==
    /\ pc = "send"
    /\ nextEx < MaxSends
    /\ Send(nextEx + 1)
    /\ curEx' = nextEx + 1
    /\ pc' = "recv"
    /\ movedOn' = (movedOn \/ exchangeFailed)
    /\ UNCHANGED <<cancelled, runState, runResult, established, closeCount,
                   fetchFails, exchangeFailed>>
    /\ UNCHANGED <<sysInstr, lastPoll, nextPollDelay, batch, pending>>
    /\ UNCHANGED <<responseChan, doneChan, termCount>>
    /\ UNCHANGED <<sanVars, fetchVars, textVars, lockVars, concVars, postVars, closeVars, batchVars, orderVars, raceVars, chanVars, cursorVars>>

\* handleAIResponse, lowlatency.go:135-151: RecvResponse returns.  io.EOF
\* ends the handling of this comment; a response with text goes on to be
\* posted; a response without text is dropped.
SeqRecvResponse ==
    /\ pc = "recv"
    /\ \E r \in RecvResponse :
          /\ Received(r)
          /\ IF r.err = "nil" /\ r.resp.kind \in {"text", "error"}
             THEN /\ pending' = [ex |-> r.resp.ex, kind |-> r.resp.kind]
                  /\ pc' = "post"
                  /\ UNCHANGED batch
             ELSE /\ NextComment
                  /\ UNCHANGED pending
          /\ exchangeFailed' = (exchangeFailed \/ r.err # "nil" \/ r.resp.kind = "error")
    /\ UNCHANGED <<cancelled, runState, runResult, established, closeCount,
                   fetchFails, movedOn>>
    /\ UNCHANGED <<sysInstr, lastPoll, nextPollDelay, curEx>>
    /\ UNCHANGED <<nextEx, streams>>
    /\ UNCHANGED <<sanVars, fetchVars, textVars, lockVars, concVars, postVars, closeVars, batchVars, orderVars, raceVars, chanVars, cursorVars>>

\* handleAIResponse, lowlatency.go:152-157: PostComment returns; an error is
\* logged.
SeqPost ==
    /\ pc = "post"
    /\ pending' = NoPending
    /\ NextComment
    /\ \E ok \in BOOLEAN : exchangeFailed' = (exchangeFailed \/ ~ok)
    /\ UNCHANGED <<cancelled, runState, runResult, established, closeCount,
                   fetchFails, movedOn>>
    /\ UNCHANGED <<sysInstr, lastPoll, nextPollDelay, curEx>>
    /\ UNCHANGED <<sanVars, fetchVars, textVars, lockVars, sessVars, concVars, postVars, closeVars, batchVars, orderVars, raceVars, chanVars, cursorVars>>

StreamStep ==
    \E ex \in Exchanges :
        \/ StreamChunk(ex)
        \/ StreamEOF(ex)
        \/ StreamError(ex)
        \/ StreamSendResponse(ex)
        \/ StreamSendDone(ex)

NextSeq ==
    \/ SeqRunStart
    \/ SeqSysRecv
    \/ SeqReturnCancelled
    \/ SeqPollEnded
    \/ SeqPollError
    \/ SeqPollOk
    \/ SeqSend
    \/ SeqRecvResponse
    \/ SeqPost
    \/ StreamStep
    \/ Cancel

SpecSeq == InitSeq /\ [][NextSeq]_vars

(***************************************************************************)
(* The concurrent pipeline: unnamed/part_000, on liveSessionWrapper and    *)
(* mockSession of internal/gemini/live.go:277-418                          *)
(***************************************************************************)

mockRecvLimit == 5

InitConc ==
    /\ SanOff
    /\ FetchOff
    /\ TextOff
    /\ LockOff
    /\ PostOff
    /\ SeqOff
    /\ SessOff
    /\ cancelled = FALSE
    /\ runState = "running"
    /\ runResult = "none"
    /\ established = FALSE
    /\ closeCount = 0
    /\ fetchFails = 0
    /\ exchangeFailed = FALSE
    /\ movedOn = FALSE
    /\ cPc = "connect"
    /\ rcvPc = "idle"
    /\ recvCount = 0
    /\ pollPc = "idle"
    /\ attempt = 0
    /\ waits = <<>>
    /\ cBatch = 0
    /\ errorChan = <<>>
    /\ postsPending = 0
    /\ CloseOff
    /\ BatchOff
    /\ OrderOff
    /\ RaceOff
    /\ ChanOff
    /\ CursorOff

\* Run, part_000:41-57: Connect (it succeeds for every client NewLiveClient
\* builds), defer session.Close(), and the start of the two goroutines.
ConcRunStart ==
    /\ cPc = "connect"
    /\ established' = TRUE
    /\ cPc' = "loop"
    /\ rcvPc' = "recv"
    /\ pollPc' = "tick"
    /\ UNCHANGED <<cancelled, runState, runResult, closeCount, fetchFails,
                   exchangeFailed, movedOn>>
    /\ UNCHANGED <<recvCount, attempt, waits, cBatch, errorChan, postsPending>>
    /\ UNCHANGED <<sanVars, fetchVars, textVars, lockVars, seqVars, sessVars, postVars, closeVars, batchVars, orderVars, raceVars, chanVars, cursorVars>>

\* Run, part_000:61-82: case resp := <-responseChan, the rendezvous with
\* handleReceive blocked in responseChan <- resp (part_000:202-206).  The
\* wrapper always hands over a text with Done false (live.go:342-345), so a
\* PostComment goroutine is started and both loops go on.
ConcRunResponse ==
    /\ cPc = "loop"
    /\ rcvPc = "sendResp"
    /\ rcvPc' = "recv"
    /\ postsPending' = postsPending + 1
    /\ UNCHANGED runVars
    /\ UNCHANGED <<cPc, recvCount, pollPc, attempt, waits, cBatch, errorChan>>
    /\ UNCHANGED <<sanVars, fetchVars, textVars, lockVars, seqVars, sessVars, postVars, closeVars, batchVars, orderVars, raceVars, chanVars, cursorVars>>

\* Run, part_000:84-86: case err := <-errorChan; Run returns err.
ConcRunError ==
    /\ cPc = "loop"
    /\ errorChan # <<>>
    /\ RunReturns(Head(errorChan))
    /\ errorChan' = Tail(errorChan)
    /\ cPc' = "returned"
    /\ UNCHANGED <<cancelled, established, fetchFails, exchangeFailed, movedOn>>
    /\ UNCHANGED <<rcvPc, recvCount, pollPc, attempt, waits, cBatch, postsPending>>
    /\ UNCHANGED <<sanVars, fetchVars, textVars, lockVars, seqVars, sessVars, postVars, closeVars, batchVars, orderVars, raceVars, chanVars, cursorVars>>

\* Run, part_000:88-91: case <-ctx.Done(); Run returns ctx.Err().
ConcRunCancelled ==
    /\ cPc = "loop"
    /\ cancelled
    /\ RunReturns("cancelled")
    /\ cPc' = "returned"
    /\ UNCHANGED <<cancelled, established, fetchFails, exchangeFailed, movedOn>>
    /\ UNCHANGED <<rcvPc, recvCount, pollPc, attempt, waits, cBatch, errorChan, postsPending>>
    /\ UNCHANGED <<sanVars, fetchVars, textVars, lockVars, seqVars, sessVars, postVars, closeVars, batchVars, orderVars, raceVars, chanVars, cursorVars>>

PostReturnsFatal ==
    /\ postsPending > 0
    /\ postsPending' = postsPending - 1
    /\ \E ok \in BOOLEAN :
          /\ exchangeFailed' = (exchangeFailed \/ ~ok)
          /\ errorChan' = IF ~ok /\ Len(errorChan) < 1
                          THEN Append(errorChan, "postError")
                          ELSE errorChan
    /\ UNCHANGED <<cancelled, runState, runResult, established, closeCount,
                   fetchFails, movedOn>>
    /\ UNCHANGED <<cPc, rcvPc, recvCount, pollPc, attempt, waits, cBatch>>
    /\ UNCHANGED <<sanVars, fetchVars, textVars, lockVars, seqVars, sessVars, postVars, closeVars, batchVars, orderVars, raceVars, chanVars, cursorVars>>

\* The goroutine of part_000:75-80: PostComment returns; an error is logged.
PostReturns ==
    /\ postsPending > 0
    /\ postsPending' = postsPending - 1
    /\ \E ok \in BOOLEAN : exchangeFailed' = (exchangeFailed \/ ~ok)
    /\ UNCHANGED <<cancelled, runState, runResult, established, closeCount,
                   fetchFails, movedOn>>
    /\ UNCHANGED <<cPc, rcvPc, recvCount, pollPc, attempt, waits, cBatch, errorChan>>
    /\ UNCHANGED <<sanVars, fetchVars, textVars, lockVars, seqVars, sessVars, postVars, closeVars, batchVars, orderVars, raceVars, chanVars, cursorVars>>

\* handleReceive, part_000:196 with liveSessionWrapper.RecvResponse and
\* mockSession.SDKRecv (live.go:330-346, 398-413): one of the first five
\* calls, which return a response.
RcvResponse ==
    /\ rcvPc = "recv"
    /\ recvCount + 1 <= mockRecvLimit
    /\ recvCount' = recvCount + 1
    /\ rcvPc' = "sendResp"
    /\ UNCHANGED runVars
    /\ UNCHANGED <<cPc, pollPc, attempt, waits, cBatch, errorChan, postsPending>>
    /\ UNCHANGED <<sanVars, fetchVars, textVars, lockVars, seqVars, sessVars, postVars, closeVars, batchVars, orderVars, raceVars, chanVars, cursorVars>>

\* handleReceive, part_000:196-200: a later call, which returns the error
\* "EOF"; handleReceive goes on to hand it to errorChan.
RcvError ==
    /\ rcvPc = "recv"
    /\ recvCount + 1 > mockRecvLimit
    /\ recvCount' = recvCount + 1
    /\ rcvPc' = "sendErr"
    /\ exchangeFailed' = TRUE
    /\ UNCHANGED <<cancelled, runState, runResult, established, closeCount,
                   fetchFails, movedOn>>
    /\ UNCHANGED <<cPc, pollPc, attempt, waits, cBatch, errorChan, postsPending>>
    /\ UNCHANGED <<sanVars, fetchVars, textVars, lockVars, seqVars, sessVars, postVars, closeVars, batchVars, orderVars, raceVars, chanVars, cursorVars>>

\* handleReceive that returns on an error without handing it over.
RcvSendErrorDropped ==
    /\ rcvPc = "sendErr"
    /\ rcvPc' = "done"
    /\ UNCHANGED runVars
    /\ UNCHANGED <<cPc, recvCount, pollPc, attempt, waits, cBatch, errorChan, postsPending>>
    /\ UNCHANGED <<sanVars, fetchVars, textVars, lockVars, seqVars, sessVars, postVars,
                   closeVars, batchVars, orderVars, raceVars, chanVars, cursorVars>>

\* handleReceive, part_000:198-199: errorChan <- err, then return; blocks
\* while errorChan is full.
RcvSendError ==
    /\ rcvPc = "sendErr"
    /\ Len(errorChan) < 1
    /\ errorChan' = Append(errorChan, "recvError")
    /\ rcvPc' = "done"
    /\ UNCHANGED runVars
    /\ UNCHANGED <<cPc, recvCount, pollPc, attempt, waits, cBatch, postsPending>>
    /\ UNCHANGED <<sanVars, fetchVars, textVars, lockVars, seqVars, sessVars, postVars, closeVars, batchVars, orderVars, raceVars, chanVars, cursorVars>>

\* handleLiveChatPollingAndInput, part_000:129-142: case <-ticker.C; the
\* retry loop starts with attempt 0.
PollTick ==
    /\ pollPc = "tick"
    /\ attempt' = 0
    /\ waits' = <<>>
    /\ pollPc' = "fetch"
    /\ UNCHANGED runVars
    /\ UNCHANGED <<cPc, rcvPc, recvCount, cBatch, errorChan, postsPending>>
    /\ UNCHANGED <<sanVars, fetchVars, textVars, lockVars, seqVars, sessVars, postVars, closeVars, batchVars, orderVars, raceVars, chanVars, cursorVars>>

\* part_000:130-132 and 158-159: case <-ctx.Done() of the ticker select and
\* of the backoff select; the goroutine returns.
PollCancelled ==
    /\ pollPc \in {"tick", "backoff"}
    /\ cancelled
    /\ pollPc' = "done"
    /\ UNCHANGED runVars
    /\ UNCHANGED <<cPc, rcvPc, recvCount, attempt, waits, cBatch, errorChan, postsPending>>
    /\ UNCHANGED <<sanVars, fetchVars, textVars, lockVars, seqVars, sessVars, postVars, closeVars, batchVars, orderVars, raceVars, chanVars, cursorVars>>

\* part_000:143-148 and 172: FetchLiveChatMessages returns n comments.
PollFetchOk ==
    /\ pollPc = "fetch"
    /\ Polled(FALSE)
    /\ \E n \in 0..MaxBatch :
          /\ cBatch' = n
          /\ pollPc' = IF n > 0 THEN "sending" ELSE "tick"
    /\ UNCHANGED <<cancelled, runState, runResult, established, closeCount, exchangeFailed>>
    /\ UNCHANGED <<cPc, rcvPc, recvCount, attempt, waits, errorChan, postsPending>>
    /\ UNCHANGED <<sanVars, fetchVars, textVars, lockVars, seqVars, sessVars, postVars, closeVars, batchVars, orderVars, raceVars, chanVars, cursorVars>>

PollFetchFailEarly ==
    /\ pollPc = "fetch"
    /\ Polled(TRUE)
    /\ pollPc' = IF attempt < maxRetries - 2 THEN "backoff" ELSE "escalate"
    /\ UNCHANGED <<cancelled, runState, runResult, established, closeCount, exchangeFailed>>
    /\ UNCHANGED <<cPc, rcvPc, recvCount, attempt, waits, cBatch, errorChan, postsPending>>
    /\ UNCHANGED <<sanVars, fetchVars, textVars, lockVars, seqVars, sessVars, postVars, closeVars, batchVars, orderVars, raceVars, chanVars, cursorVars>>

\* part_000:143-170: FetchLiveChatMessages returns an error (of any kind:
\* ErrLiveChatEnded is not told apart here).  Before the last attempt the
\* loop backs off; after it the loop ends with err != nil.
PollFetchFail ==
    /\ pollPc = "fetch"
    /\ Polled(TRUE)
    /\ pollPc' = IF attempt < maxRetries - 1 THEN "backoff" ELSE "escalate"
    /\ UNCHANGED <<cancelled, runState, runResult, established, closeCount, exchangeFailed>>
    /\ UNCHANGED <<cPc, rcvPc, recvCount, attempt, waits, cBatch, errorChan, postsPending>>
    /\ UNCHANGED <<sanVars, fetchVars, textVars, lockVars, seqVars, sessVars, postVars, closeVars, batchVars, orderVars, raceVars, chanVars, cursorVars>>

initialDelay == 1    \* 1 * time.Second, in seconds

delayConstant(k) == initialDelay

\* part_000:155: delay := initialDelay * time.Duration(1<<attempt).
delay(k) == initialDelay * 2^k

\* part_000:160-162 and 142: case <-time.After(delay), then attempt++.
PollBackoffOver ==
    /\ pollPc = "backoff"
    /\ waits' = Append(waits, delay(attempt))
    /\ attempt' = attempt + 1
    /\ pollPc' = "fetch"
    /\ UNCHANGED runVars
    /\ UNCHANGED <<cPc, rcvPc, recvCount, cBatch, errorChan, postsPending>>
    /\ UNCHANGED <<sanVars, fetchVars, textVars, lockVars, seqVars, sessVars, postVars, closeVars, batchVars, orderVars, raceVars, chanVars, cursorVars>>

\* part_000:166-170: errorChan <- "failed to fetch ... after 3 retries",
\* then return; blocks while errorChan is full.
PollEscalate ==
    /\ pollPc = "escalate"
    /\ Len(errorChan) < 1
    /\ errorChan' = Append(errorChan, "pollFatal")
    /\ pollPc' = "done"
    /\ UNCHANGED runVars
    /\ UNCHANGED <<cPc, rcvPc, recvCount, attempt, waits, cBatch, postsPending>>
    /\ UNCHANGED <<sanVars, fetchVars, textVars, lockVars, seqVars, sessVars, postVars, closeVars, batchVars, orderVars, raceVars, chanVars, cursorVars>>

\* part_000:175-187: session.Send of the next comment; the wrapper passes it
\* to mockSession.SDKSend, which returns nil (live.go:320-327, 393-396).  The
\* loop does not wait for any response before the next Send.
PollSend ==
    /\ pollPc = "sending"
    /\ cBatch' = cBatch - 1
    /\ pollPc' = IF cBatch - 1 > 0 THEN "sending" ELSE "tick"
    /\ movedOn' = (movedOn \/ exchangeFailed)
    /\ UNCHANGED <<cancelled, runState, runResult, established, closeCount,
                   fetchFails, exchangeFailed>>
    /\ UNCHANGED <<cPc, rcvPc, recvCount, attempt, waits, errorChan, postsPending>>
    /\ UNCHANGED <<sanVars, fetchVars, textVars, lockVars, seqVars, sessVars, postVars, closeVars, batchVars, orderVars, raceVars, chanVars, cursorVars>>

NextConc ==
    \/ ConcRunStart
    \/ ConcRunResponse
    \/ ConcRunError
    \/ ConcRunCancelled
    \/ PostReturns
    \/ RcvResponse
    \/ RcvError
    \/ RcvSendError
    \/ PollTick
    \/ PollCancelled
    \/ PollFetchOk
    \/ PollFetchFail
    \/ PollBackoffOver
    \/ PollEscalate
    \/ PollSend
    \/ Cancel

SpecConc == InitConc /\ [][NextConc]_vars

\* Both pipelines; which one runs is fixed by the initial state.
InitPipe == InitSeq \/ InitConc

NextPipe == NextSeq \/ NextConc

SpecPipe == InitPipe /\ [][NextPipe]_vars

(***************************************************************************)
(* youtube.Client.FetchLiveChatMessages of unnamed/part_006                *)
(***************************************************************************)

MaxItems == 2       \* items in one response of the source
MaxClock == 2       \* the clock stops here, in hours

\* 1 * time.Hour, in hours.
commentIDRetentionDuration == 1

\* response.Items: each item has an Id and a Snippet.DisplayMessage, of which
\* only emptiness matters.  One item without message stands for all of them:
\* the loop drops it before its id is recorded.
Items == [id : CommentIDs, hasMessage : {TRUE}] \cup {[id |-> 1, hasMessage |-> FALSE]}

ItemSeqs == UNION {[1..n -> Items] : n \in 0..MaxItems}

\* part_006:241-269: the loop over response.Items.  An item whose id is in
\* the map is skipped, an item without message is skipped, any other is
\* appended to newComments and its id recorded with currentTime.
RECURSIVE FilterItems(_, _, _)
FilterItems(items, ids, currentTime) ==
    IF items = <<>>
    THEN [comments |-> <<>>, ids |-> ids]
    ELSE LET item == Head(items)
         IN  IF item.id \in DOMAIN ids
             THEN FilterItems(Tail(items), ids, currentTime)
             ELSE IF ~item.hasMessage
             THEN FilterItems(Tail(items), ids, currentTime)
             ELSE LET r == FilterItems(Tail(items),
                                       ids @@ (item.id :> currentTime),
                                       currentTime)
                  IN  [comments |-> <<item.id>> \o r.comments, ids |-> r.ids]

\* cleanOldCommentIDs that deletes nothing.
cleanOldCommentIDsKeepsAll(ids, currentTime) == ids

\* cleanOldCommentIDs that also deletes the entries of exactly the threshold.
cleanOldCommentIDsAtLimit(ids, currentTime) ==
    LET threshold == currentTime - commentIDRetentionDuration
        kept == {id \in DOMAIN ids : ~(ids[id] <= threshold)}
    IN  [id \in kept |-> ids[id]]

\* part_006:278-295: entries recorded before currentTime minus the retention
\* are deleted (t.Before(threshold)).
cleanOldCommentIDs(ids, currentTime) ==
    LET threshold == currentTime - commentIDRetentionDuration
        kept == {id \in DOMAIN ids : ~(ids[id] < threshold)}
    IN  [id \in kept |-> ids[id]]

\* The history of returns after a call that returned comments at time t.
RECURSIVE RecordReturns(_, _, _)
RecordReturns(comments, h, t) ==
    IF comments = <<>>
    THEN h
    ELSE LET id == Head(comments)
         IN  RecordReturns(Tail(comments),
                       [prev |-> [h.prev EXCEPT ![id] = h.last[id]],
                        last |-> [h.last EXCEPT ![id] = t]],
                       t)

InitFetch ==
    /\ SanOff
    /\ TextOff
    /\ LockOff
    /\ PostOff
    /\ RunOff
    /\ SeqOff
    /\ SessOff
    /\ ConcOff
    /\ fPc = "idle"
    /\ now = 0
    /\ liveChatID = ""
    /\ nextPageToken = ""
    /\ lastFetchedCommentIDs = <<>>
    /\ lastSkipped = {}
    /\ lastCall = NoCall
    /\ prevReturn = [id \in CommentIDs |-> Never]
    /\ lastReturn = [id \in CommentIDs |-> Never]
    /\ endedAt = Never
    /\ CloseOff
    /\ BatchOff
    /\ OrderOff
    /\ RaceOff
    /\ ChanOff
    /\ CursorOff

\* Time passes between two calls.
FetchTick ==
    /\ fPc = "idle"
    /\ now < MaxClock
    /\ now' = now + 1
    /\ UNCHANGED <<fPc, liveChatID, nextPageToken, lastFetchedCommentIDs,
                   lastSkipped, lastCall, prevReturn, lastReturn, endedAt>>
    /\ UNCHANGED <<sanVars, textVars, lockVars, runVars, seqVars, sessVars, concVars, postVars, closeVars, batchVars, orderVars, raceVars, chanVars, cursorVars>>

\* part_006:203-209: no liveChatID yet and findLiveChatID fails.
FetchFindFails ==
    /\ fPc = "idle"
    /\ liveChatID = ""
    /\ lastSkipped' = {}
    /\ lastCall' = [err |-> "findFailed", comments |-> 0, interval |-> 0,
                    lookedUp |-> TRUE, listed |-> FALSE]
    /\ UNCHANGED <<fPc, now, liveChatID, nextPageToken, lastFetchedCommentIDs,
                   prevReturn, lastReturn, endedAt>>
    /\ UNCHANGED <<sanVars, textVars, lockVars, runVars, seqVars, sessVars, concVars, postVars, closeVars, batchVars, orderVars, raceVars, chanVars, cursorVars>>

\* FetchEnded without the reset of the continuation token.
FetchEndedKeepsToken ==
    /\ fPc = "idle"
    /\ liveChatID' = ""
    /\ lastSkipped' = {}
    /\ lastCall' = [err |-> "ErrLiveChatEnded", comments |-> 0, interval |-> 0,
                    lookedUp |-> (liveChatID = ""),
                    listed |-> TRUE]
    /\ endedAt' = now
    /\ UNCHANGED <<fPc, now, nextPageToken, lastFetchedCommentIDs, prevReturn, lastReturn>>
    /\ UNCHANGED <<sanVars, textVars, lockVars, runVars, seqVars, sessVars, concVars, postVars, closeVars, batchVars, orderVars, raceVars, chanVars, cursorVars>>

\* part_006:219-229: the List call fails with liveChatEnded; liveChatID and
\* nextPageToken are reset and ErrLiveChatEnded is returned.
FetchEnded ==
    /\ fPc = "idle"
    /\ liveChatID' = ""
    /\ nextPageToken' = ""
    /\ lastSkipped' = {}
    /\ lastCall' = [err |-> "ErrLiveChatEnded", comments |-> 0, interval |-> 0,
                    lookedUp |-> (liveChatID = ""),
                    listed |-> TRUE]
    /\ endedAt' = now
    /\ UNCHANGED <<fPc, now, lastFetchedCommentIDs, prevReturn, lastReturn>>
    /\ UNCHANGED <<sanVars, textVars, lockVars, runVars, seqVars, sessVars, concVars, postVars, closeVars, batchVars, orderVars, raceVars, chanVars, cursorVars>>

\* FetchFails with the garbage collection run before the error is returned.
FetchFailsCollects ==
    /\ fPc = "idle"
    /\ liveChatID' = "chat"
    /\ lastFetchedCommentIDs' = cleanOldCommentIDs(lastFetchedCommentIDs, now)
    /\ lastSkipped' = {}
    /\ lastCall' = [err |-> "failed", comments |-> 0, interval |-> 0,
                    lookedUp |-> (liveChatID = ""),
                    listed |-> TRUE]
    /\ UNCHANGED <<fPc, now, nextPageToken, prevReturn, lastReturn, endedAt>>
    /\ UNCHANGED <<sanVars, textVars, lockVars, runVars, seqVars, sessVars, concVars,
                   postVars, closeVars, batchVars, orderVars, raceVars, chanVars,
                   cursorVars>>

\* part_006:219-232: the List call fails with any other error.
FetchFails ==
    /\ fPc = "idle"
    /\ liveChatID' = "chat"
    /\ lastSkipped' = {}
    /\ lastCall' = [err |-> "failed", comments |-> 0, interval |-> 0,
                    lookedUp |-> (liveChatID = ""),
                    listed |-> TRUE]
    /\ UNCHANGED <<fPc, now, nextPageToken, lastFetchedCommentIDs,
                   prevReturn, lastReturn, endedAt>>
    /\ UNCHANGED <<sanVars, textVars, lockVars, runVars, seqVars, sessVars, concVars, postVars, closeVars, batchVars, orderVars, raceVars, chanVars, cursorVars>>

\* part_006:203-275: the List call succeeds.
FetchOk ==
    /\ fPc = "idle"
    /\ \E items \in ItemSeqs :
          LET r == FilterItems(items, lastFetchedCommentIDs, now)
              h == RecordReturns(r.comments, [prev |-> prevReturn, last |-> lastReturn], now)
          IN  /\ liveChatID' = "chat"
              /\ nextPageToken' = "next"
              /\ lastFetchedCommentIDs' = cleanOldCommentIDs(r.ids, now)
              /\ lastSkipped' = {items[i].id : i \in {j \in 1..Len(items) :
                                     items[j].id \in DOMAIN lastFetchedCommentIDs}}
              /\ lastCall' = [err |-> "nil", lookedUp |-> (liveChatID = ""),
                    listed |-> TRUE]
              /\ prevReturn' = h.prev
              /\ lastReturn' = h.last
    /\ UNCHANGED <<fPc, now, endedAt>>
    /\ UNCHANGED <<sanVars, textVars, lockVars, runVars, seqVars, sessVars, concVars, postVars, closeVars, batchVars, orderVars, raceVars, chanVars, cursorVars>>

NextFetch ==
    \/ FetchTick
    \/ FetchFindFails
    \/ FetchEnded
    \/ FetchFails
    \/ FetchOk

SpecFetch == InitFetch /\ [][NextFetch]_vars

(***************************************************************************)
(* The concurrent pipeline of unnamed/part_001 on the geminiLiveSession of *)
(* live.go:16-139.  RecvResponse holds s.mu while it waits (live.go:112),  *)
(* Send needs it (live.go:51).                                             *)
(***************************************************************************)

InitLock ==
    /\ SanOff
    /\ SeqOff
    /\ SessOff
    /\ FetchOff
    /\ TextOff
    /\ cancelled = FALSE
    /\ runState = "running"
    /\ runResult = "none"
    /\ established = TRUE
    /\ closeCount = 0
    /\ fetchFails = 0
    /\ exchangeFailed = FALSE
    /\ movedOn = FALSE
    /\ cPc = "start"
    /\ rcvPc = "idle"
    /\ recvCount = 0
    /\ pollPc = "idle"
    /\ attempt = 0
    /\ waits = <<>>
    /\ cBatch = 0
    /\ errorChan = <<>>
    /\ postsPending = 0
    /\ mu = "free"
    /\ rcvResp = DoneOnly
    /\ PostOff
    /\ CloseOff
    /\ BatchOff
    /\ OrderOff
    /\ RaceOff
    /\ ChanOff
    /\ CursorOff

\* Run, part_001:45-58: the session exists already; defer session.Close()
\* and the start of the two goroutines.
LockRunStart ==
    /\ cPc = "start"
    /\ cPc' = "loop"
    /\ rcvPc' = "lock"
    /\ pollPc' = "tick"
    /\ UNCHANGED <<recvCount, attempt, waits, cBatch, errorChan, postsPending>>
    /\ UNCHANGED <<sanVars, fetchVars, textVars, lockVars, runVars, seqVars, sessVars, postVars, closeVars, batchVars, orderVars, raceVars, chanVars, cursorVars>>

\* handleReceive, part_001:220 with RecvResponse, live.go:111-113: s.mu.Lock().
RcvLock ==
    /\ rcvPc = "lock"
    /\ mu = "free"
    /\ mu' = "recv"
    /\ rcvPc' = "select"
    /\ UNCHANGED <<cPc, recvCount, pollPc, attempt, waits, cBatch, errorChan, postsPending>>
    /\ UNCHANGED rcvResp
    /\ UNCHANGED <<sanVars, fetchVars, textVars, runVars, seqVars, sessVars, postVars, closeVars, batchVars, orderVars, raceVars, chanVars, cursorVars>>

\* RecvResponse, live.go:115-134: the select takes a signal, the deferred
\* Unlock runs, and handleReceive (part_001:220-227) goes on with the result.
\* The first RecvResponse of a session never returns io.EOF (a response is
\* sent before doneChan is signalled), and handleReceive makes no second
\* call after a response with Done true, so it never has an error to send.
RcvSelect ==
    /\ rcvPc = "select"
    /\ \E r \in RecvResponse :
          /\ Received(r)
          /\ rcvResp' = r.resp
          /\ rcvPc' = IF r.err = "nil" THEN "sendResp" ELSE "sendErr"
          /\ exchangeFailed' = (exchangeFailed \/ r.err # "nil")
    /\ mu' = "free"
    /\ UNCHANGED <<cancelled, runState, runResult, established, closeCount,
                   fetchFails, movedOn>>
    /\ UNCHANGED <<nextEx, streams>>
    /\ UNCHANGED <<cPc, recvCount, pollPc, attempt, waits, cBatch, errorChan, postsPending>>
    /\ UNCHANGED <<sanVars, fetchVars, textVars, seqVars, postVars, closeVars, batchVars, orderVars, raceVars, chanVars, cursorVars>>

\* Run, part_001:61-84: case resp := <-responseChan, the rendezvous with
\* handleReceive (part_001:226-230), which returns after a response with
\* Done true; every response of this session has Done true.  A response
\* with text goes to sanitizeMessage, which panics (part_001:106): the
\* deferred Close runs and the process dies.
LockRunResponse ==
    /\ cPc = "loop"
    /\ rcvPc = "sendResp"
    /\ rcvPc' = "done"
    /\ IF rcvResp.kind \in {"text", "error"}
       THEN /\ cPc' = "panicked"
            /\ runState' = "panicked"
            /\ runResult' = "panic"
            /\ closeCount' = closeCount + 1
       ELSE UNCHANGED <<cPc, runState, runResult, closeCount>>
    /\ UNCHANGED <<cancelled, established, fetchFails, exchangeFailed, movedOn>>
    /\ UNCHANGED <<recvCount, pollPc, attempt, waits, cBatch, errorChan, postsPending>>
    /\ UNCHANGED <<sanVars, fetchVars, textVars, lockVars, seqVars, sessVars, postVars, closeVars, batchVars, orderVars, raceVars, chanVars, cursorVars>>

\* handleLiveChatPollingAndInput, part_001:199-211: session.Send of the next
\* comment.  Send (live.go:50-108) locks s.mu, starts the stream goroutine,
\* unlocks and returns nil; it waits while another unit holds s.mu.
LockPollSend ==
    /\ pollPc = "sending"
    /\ mu = "free"
    /\ nextEx < MaxSends
    /\ Send(nextEx + 1)
    /\ cBatch' = cBatch - 1
    /\ pollPc' = IF cBatch - 1 > 0 THEN "sending" ELSE "tick"
    /\ UNCHANGED <<responseChan, doneChan, termCount>>
    /\ UNCHANGED <<cPc, rcvPc, recvCount, attempt, waits, errorChan, postsPending>>
    /\ UNCHANGED <<sanVars, fetchVars, textVars, lockVars, runVars, seqVars, postVars, closeVars, batchVars, orderVars, raceVars, chanVars, cursorVars>>

\* The two goroutines and the control loop of part_001 have the code of
\* part_000 except for the steps above.
NextLock ==
    \/ LockRunStart
    \/ RcvLock
    \/ RcvSelect
    \/ LockRunResponse
    \/ LockPollSend
    \/ ConcRunError
    \/ ConcRunCancelled
    \/ PollTick
    \/ PollCancelled
    \/ PollFetchOk
    \/ PollFetchFail
    \/ PollBackoffOver
    \/ PollEscalate
    \/ StreamStep
    \/ Cancel

SpecLock == InitLock /\ [][NextLock]_vars

(***************************************************************************)
(* The text of one exchange: what the two geminiLiveSession variants of    *)
(* internal/gemini/live.go hand over of the chunks the provider streams    *)
(***************************************************************************)

MaxParts == 2          \* parts in the content of one chunk
MaxStreamChunks == 2   \* chunks the provider streams in the exchange

\* A part of resp.Candidates[0].Content.Parts: a genai.Text of one letter,
\* or a part of another type.
TextParts == {"x", "y"}

Parts == TextParts \cup {"BLOB"}

\* A chunk is the list of its parts; the empty list also stands for a chunk
\* without candidates or without content.
Chunks == UNION {[1..n -> Parts] : n \in 0..MaxParts}

ProviderStreams == UNION {[1..n -> Chunks] : n \in 0..MaxStreamChunks}

\* The text parts of a chunk, concatenated in order.
RECURSIVE AllText(_)
AllText(parts) ==
    IF parts = <<>> THEN <<>>
    ELSE (IF Head(parts) \in TextParts THEN <<Head(parts)>> ELSE <<>>)
             \o AllText(Tail(parts))

\* live.go:81-88 (aggregating): the text the loop writes to responseBuilder
\* for one chunk: Parts[0] when there is one and it is a genai.Text.
FirstPartText(parts) ==
    IF Len(parts) > 0 /\ parts[1] \in TextParts THEN <<parts[1]>> ELSE <<>>

\* live.go:245-254 (streaming): chunkText, the text of every genai.Text part.
chunkText(parts) == AllText(parts)

RECURSIVE Concat(_)
Concat(texts) ==
    IF texts = <<>> THEN <<>> ELSE Head(texts) \o Concat(Tail(texts))

InitText ==
    /\ SanOff
    /\ LockOff
    /\ PostOff
    /\ RunOff
    /\ SeqOff
    /\ SessOff
    /\ ConcOff
    /\ FetchOff
    /\ txVariant \in {"aggregating", "streaming"}
    /\ txInput \in ProviderStreams
    /\ txStreamed = <<>>
    /\ txBuilder = <<>>
    /\ txEvents = <<>>
    /\ txComplete = NoCompletion
    /\ CloseOff
    /\ BatchOff
    /\ OrderOff
    /\ RaceOff
    /\ ChanOff
    /\ CursorOff

\* Aggregating variant, live.go:69-89: stream.Next() returns a chunk and the
\* goroutine accumulates its text.
AggNextChunk ==
    /\ txVariant = "aggregating"
    /\ ~txComplete.done
    /\ txInput # <<>>
    /\ txInput' = Tail(txInput)
    /\ txStreamed' = txStreamed \o AllText(Head(txInput))
    /\ txBuilder' = txBuilder \o FirstPartText(Head(txInput))
    /\ UNCHANGED <<txVariant, txEvents, txComplete>>
    /\ UNCHANGED <<sanVars, fetchVars, lockVars, runVars, seqVars, sessVars, concVars, postVars, closeVars, batchVars, orderVars, raceVars, chanVars, cursorVars>>

\* Aggregating variant, live.go:71-103 and 124-133: stream.Next() returns
\* io.EOF, the goroutine sends fullResponse (which may be empty) with Done
\* true, and RecvResponse hands it over.
AggComplete ==
    /\ txVariant = "aggregating"
    /\ ~txComplete.done
    /\ txInput = <<>>
    /\ txComplete' = [done |-> TRUE, text |-> txBuilder]
    /\ UNCHANGED <<txVariant, txInput, txStreamed, txBuilder, txEvents>>
    /\ UNCHANGED <<sanVars, fetchVars, lockVars, runVars, seqVars, sessVars, concVars, postVars, closeVars, batchVars, orderVars, raceVars, chanVars, cursorVars>>

\* Streaming variant, live.go:216-226 and 241-263: stream.Next() returns a
\* chunk, the goroutine passes it on streamChan, and RecvResponse hands over
\* its text with Done false and appends it to currentText.
StrChunk ==
    /\ txVariant = "streaming"
    /\ ~txComplete.done
    /\ txInput # <<>>
    /\ txInput' = Tail(txInput)
    /\ txStreamed' = txStreamed \o AllText(Head(txInput))
    /\ txBuilder' = txBuilder \o chunkText(Head(txInput))
    /\ txEvents' = Append(txEvents, chunkText(Head(txInput)))
    /\ UNCHANGED <<txVariant, txComplete>>
    /\ UNCHANGED <<sanVars, fetchVars, lockVars, runVars, seqVars, sessVars, concVars, postVars, closeVars, batchVars, orderVars, raceVars, chanVars, cursorVars>>

\* Streaming variant, live.go:206-219 and 237-244: stream.Next() returns
\* iterator.Done, the goroutine signals doneChan and closes streamChan, and
\* RecvResponse hands over a response with Done true and no text.
StrComplete ==
    /\ txVariant = "streaming"
    /\ ~txComplete.done
    /\ txInput = <<>>
    /\ txComplete' = [done |-> TRUE, text |-> <<>>]
    /\ UNCHANGED <<txVariant, txInput, txStreamed, txBuilder, txEvents>>
    /\ UNCHANGED <<sanVars, fetchVars, lockVars, runVars, seqVars, sessVars, concVars, postVars, closeVars, batchVars, orderVars, raceVars, chanVars, cursorVars>>

NextText ==
    \/ AggNextChunk
    \/ AggComplete
    \/ StrChunk
    \/ StrComplete

SpecText == InitText /\ [][NextText]_vars

(***************************************************************************)
(* SpecSan: inputs                                                         *)
(***************************************************************************)

MaxShortLen == 3

Slack == 2

ShortAlphabet == {"a", "U+3042", "BQ", "LF", " "}

ShortStrings == UNION {[1..n -> ShortAlphabet] : n \in 0..MaxShortLen}

Fenced ==
    { <<"BQ", "BQ", "BQ">> \o body \o <<"BQ", "BQ", "BQ">> \o rest :
        body \in {<<>>, <<"a">>, <<"LF", "a">>}, rest \in {<<>>, <<"LF", "b">>, <<"BQ", "BQ", "BQ">>} }

Patterns == { <<"a">>, <<"U+3042">>, <<"a", "U+00E9">>, <<"U+1F600", "a", "U+3042">> }

Periodic(p, n) == [i \in 1..n |-> p[((i - 1) % Len(p)) + 1]]

\* Lengths around the codepoint cap and around the byte limit of 3- and
\* 4-byte text.
LongLens ==
    {youtubeMaxCommentLength + d : d \in (0 - Slack)..Slack}
      \cup {(youtubeCommentLimit \div 3) + d : d \in (0 - Slack)..Slack}
      \cup {(youtubeCommentLimit \div 4) + d : d \in 0..Slack}

LongStrings == {Periodic(p, n) : p \in Patterns, n \in LongLens}

Messages == ShortStrings \cup Fenced \cup LongStrings

InitSan ==
    /\ sanIn \in Messages
    /\ sanFn = "none"
    /\ sanOut = NoResult
    /\ RunOff
    /\ SeqOff
    /\ SessOff
    /\ ConcOff
    /\ FetchOff
    /\ TextOff
    /\ LockOff
    /\ PostOff
    /\ CloseOff
    /\ BatchOff
    /\ OrderOff
    /\ RaceOff
    /\ ChanOff
    /\ CursorOff

CallSanitizeMessage ==
    /\ sanFn = "none"
    /\ sanFn' = "pipeline"
    /\ sanOut' = sanitizeMessage(sanIn)
    /\ UNCHANGED <<sanIn, fetchVars, textVars, lockVars, runVars, seqVars, sessVars, concVars, postVars, closeVars, batchVars, orderVars, raceVars, chanVars, cursorVars>>

CallSanitizeMessageMarkdown ==
    /\ sanFn = "none"
    /\ sanFn' = "markdown"
    /\ sanOut' = sanitizeMessageMarkdown(sanIn)
    /\ UNCHANGED <<sanIn, fetchVars, textVars, lockVars, runVars, seqVars, sessVars, concVars, postVars, closeVars, batchVars, orderVars, raceVars, chanVars, cursorVars>>

CallSanitizeMessageProcessor ==
    /\ sanFn = "none"
    /\ sanFn' = "processor"
    /\ sanOut' = sanitizeMessageProcessor(sanIn)
    /\ UNCHANGED <<sanIn, fetchVars, textVars, lockVars, runVars, seqVars, sessVars, concVars, postVars, closeVars, batchVars, orderVars, raceVars, chanVars, cursorVars>>

NextSan ==
    \/ CallSanitizeMessage
    \/ CallSanitizeMessageMarkdown
    \/ CallSanitizeMessageProcessor

SpecSan == InitSan /\ [][NextSan]_vars

(***************************************************************************)
(* From an AI response to PostComment: handleAIResponse of                 *)
(* internal/pipeline/lowlatency.go, Run of unnamed/part_001 and            *)
(* FetchAndProcessComments of internal/apis/youtube_client.go              *)
(***************************************************************************)

\* internal/apis/youtube_client.go:197-207 sanitizeMessage: code blocks
\* removed, space trimmed, line feeds replaced; no length cut.
sanitizeMessageYouTube(message) == Returned(cleanedProcessor(message))

\* PostComment(ctx, text)
Posted(text) == [made |-> TRUE, text |-> text]

Responses == ShortStrings \cup Fenced

InitPost ==
    /\ postBy = "none"
    /\ postResp \in Responses
    /\ dryRun \in BOOLEAN
    /\ postSan = NoResult
    /\ postCall = NoPost
    /\ SanOff
    /\ RunOff
    /\ SeqOff
    /\ SessOff
    /\ ConcOff
    /\ FetchOff
    /\ TextOff
    /\ LockOff
    /\ CloseOff
    /\ BatchOff
    /\ OrderOff
    /\ RaceOff
    /\ ChanOff
    /\ CursorOff

\* lowlatency.go:135-158: RecvResponse returned resp; ResponseText is posted
\* as it is when it is not empty.
handleAIResponse ==
    /\ postBy = "none"
    /\ postBy' = "handleAIResponse"
    /\ postSan' = NoResult
    /\ postCall' = IF postResp # <<>> THEN Posted(postResp) ELSE NoPost
    /\ UNCHANGED <<postResp, dryRun>>
    /\ UNCHANGED <<sanVars, runVars, seqVars, sessVars, concVars, fetchVars, textVars, lockVars, closeVars, batchVars, orderVars, raceVars, chanVars, cursorVars>>

\* part_001:62-84: the responseChan case of Run; a non-empty ResponseText
\* goes through sanitizeMessage, and the goroutine that posts is started
\* after sanitizeMessage has returned.
RunPostsResponse ==
    /\ postBy = "none"
    /\ postBy' = "Run"
    /\ LET safeText == sanitizeMessageMarkdown(postResp)
       IN  IF postResp # <<>>
           THEN /\ postSan' = safeText
                /\ postCall' = IF safeText.kind = "ok"
                                THEN Posted(safeText.text) ELSE NoPost
           ELSE /\ postSan' = NoResult
                /\ postCall' = NoPost
    /\ UNCHANGED <<postResp, dryRun>>
    /\ UNCHANGED <<sanVars, runVars, seqVars, sessVars, concVars, fetchVars, textVars, lockVars, closeVars, batchVars, orderVars, raceVars, chanVars, cursorVars>>

\* youtube_client.go:236-257: one response of GenerateResponse in the loop of
\* FetchAndProcessComments; an empty sanitized response is skipped, and a
\* dry run posts nothing.
FetchAndProcessComments ==
    /\ postBy = "none"
    /\ postBy' = "FetchAndProcessComments"
    /\ LET sanitizedResponse == sanitizeMessageYouTube(postResp)
       IN  /\ postSan' = sanitizedResponse
           /\ postCall' = IF sanitizedResponse.text = <<>> \/ dryRun
                           THEN NoPost
                           ELSE Posted(sanitizedResponse.text)
    /\ UNCHANGED <<postResp, dryRun>>
    /\ UNCHANGED <<sanVars, runVars, seqVars, sessVars, concVars, fetchVars, textVars, lockVars, closeVars, batchVars, orderVars, raceVars, chanVars, cursorVars>>

NextPost ==
    \/ handleAIResponse
    \/ RunPostsResponse
    \/ FetchAndProcessComments

SpecPost == InitPost /\ [][NextPost]_vars

(***************************************************************************)
(* Close of the sessions: geminiLiveSession (live.go:136-139, 271-275) and *)
(* liveSessionWrapper on mockSession (live.go:348-352, 415-418), called    *)
(* at any time by a caller of its own                                      *)
(***************************************************************************)

MaxCloses == 2      \* Close calls on one session

MaxCloseSends == 2  \* Send calls on the session that is being closed

InitClose ==
    /\ closed \in {[session |-> v, calls |-> 0, ret |-> "none"] :
                      v \in {"geminiLiveSession", "liveSessionWrapper"}}
    /\ SanOff
    /\ RunOff
    /\ SeqOff
    /\ SessOff
    /\ ConcOff
    /\ FetchOff
    /\ TextOff
    /\ LockOff
    /\ PostOff
    /\ BatchOff
    /\ OrderOff
    /\ RaceOff
    /\ ChanOff
    /\ CursorOff

\* geminiLiveSession.Send by some caller: it needs s.mu (live.go:51).
CloseSessSend ==
    /\ closed.session = "geminiLiveSession"
    /\ mu = "free"
    /\ nextEx < MaxCloseSends
    /\ Send(nextEx + 1)
    /\ UNCHANGED <<responseChan, doneChan, termCount>>
    /\ UNCHANGED <<sanVars, runVars, seqVars, concVars, fetchVars, textVars, lockVars,
                   postVars, closeVars, batchVars, orderVars, raceVars, chanVars, cursorVars>>

\* geminiLiveSession.RecvResponse takes s.mu (live.go:112) and waits.
CloseSessRecvLock ==
    /\ closed.session = "geminiLiveSession"
    /\ mu = "free"
    /\ mu' = "recv"
    /\ UNCHANGED rcvResp
    /\ UNCHANGED <<sanVars, runVars, seqVars, sessVars, concVars, fetchVars, textVars,
                   postVars, closeVars, batchVars, orderVars, raceVars, chanVars, cursorVars>>

\* Its select (live.go:115-133) gets a signal; the deferred Unlock runs.
CloseSessRecvReturn ==
    /\ mu = "recv"
    /\ \E r \in RecvResponse : Received(r)
    /\ mu' = "free"
    /\ UNCHANGED <<rcvResp, nextEx, streams>>
    /\ UNCHANGED <<sanVars, runVars, seqVars, concVars, fetchVars, textVars,
                   postVars, closeVars, batchVars, orderVars, raceVars, chanVars, cursorVars>>

\* liveSessionWrapper.RecvResponse: mockSession.SDKRecv counts the call
\* (live.go:399-413).
CloseWrapperRecv ==
    /\ closed.session = "liveSessionWrapper"
    /\ recvCount <= mockRecvLimit
    /\ recvCount' = recvCount + 1
    /\ UNCHANGED <<cPc, rcvPc, pollPc, attempt, waits, cBatch, errorChan, postsPending>>
    /\ UNCHANGED <<sanVars, runVars, seqVars, sessVars, fetchVars, textVars, lockVars,
                   postVars, closeVars, batchVars, orderVars, raceVars, chanVars, cursorVars>>

\* A Close that takes s.mu as Send and RecvResponse do.
CloseLocking ==
    /\ mu = "free"
    /\ closed.calls < MaxCloses
    /\ closed' = [closed EXCEPT !.calls = @ + 1, !.ret = "nil"]
    /\ UNCHANGED <<sanVars, runVars, seqVars, sessVars, concVars, fetchVars, textVars,
                   lockVars, postVars, batchVars, orderVars, raceVars, chanVars, cursorVars>>

\* Close: the body of geminiLiveSession.Close is empty in both variants
\* (live.go:136-139, 271-275); liveSessionWrapper.Close returns what
\* mockSession.Close returns, which is nil (live.go:348-352, 415-418).
Close ==
    /\ closed.calls < MaxCloses
    /\ closed' = [closed EXCEPT !.calls = @ + 1, !.ret = "nil"]
    /\ UNCHANGED <<sanVars, runVars, seqVars, sessVars, concVars, fetchVars, textVars,
                   lockVars, postVars, batchVars, orderVars, raceVars, chanVars, cursorVars>>

NextClose ==
    \/ CloseSessSend
    \/ CloseSessRecvLock
    \/ CloseSessRecvReturn
    \/ CloseWrapperRecv
    \/ StreamStep
    \/ Close

SpecClose == InitClose /\ [][NextClose]_vars

(***************************************************************************)
(* A batch of comments in Processor.ProcessNextBatch                       *)
(* (internal/apis/gemini_client.go:112-158) and in FetchAndProcessComments *)
(* (internal/apis/youtube_client.go:211-260)                               *)
(***************************************************************************)

\* What GenerateResponse returns for a comment: an error, or a response.
Generated ==
    {[err |-> TRUE, text |-> <<>>]}
      \cup {[err |-> FALSE, text |-> t] :
               t \in {<<>>, <<" ">>, <<"a">>, <<"a", "LF">>,
                      <<"BQ", "BQ", "BQ", "a", "BQ", "BQ", "BQ">>}}

\* The sanitizeMessage of the package the function is in.
sanitizeMessageOf(by, response) ==
    IF by = "ProcessNextBatch"
    THEN sanitizeMessageProcessor(response).text
    ELSE sanitizeMessageYouTube(response).text

InitBatch ==
    /\ bBy \in {"ProcessNextBatch", "FetchAndProcessComments"}
    /\ bDryRun \in BOOLEAN
    /\ bIn \in UNION {[1..n -> Generated] : n \in 0..MaxBatch}
    /\ bLog = <<>>
    /\ SanOff
    /\ RunOff
    /\ SeqOff
    /\ SessOff
    /\ ConcOff
    /\ FetchOff
    /\ TextOff
    /\ LockOff
    /\ PostOff
    /\ CloseOff
    /\ OrderOff
    /\ RaceOff
    /\ ChanOff
    /\ CursorOff

\* The comment the loop is at.
Comment == Len(bLog) + 1

\* The body of the loop with the dryRun test left out.
HandleCommentIgnoresDryRun ==
    /\ Comment <= Len(bIn)
    /\ LET response == bIn[Comment]
           sanitizedResponse == sanitizeMessageOf(bBy, response.text)
       IN  bLog' = Append(bLog,
                IF response.err
                THEN [generated |-> FALSE, sanitized |-> <<>>, posts |-> <<>>]
                ELSE [generated |-> TRUE, sanitized |-> sanitizedResponse,
                      posts |-> IF sanitizedResponse = <<>>
                                THEN <<>> ELSE <<sanitizedResponse>>])
    /\ UNCHANGED <<bBy, bDryRun, bIn>>
    /\ UNCHANGED <<sanVars, runVars, seqVars, sessVars, concVars, fetchVars, textVars,
                   lockVars, postVars, closeVars, orderVars, raceVars, chanVars, cursorVars>>

\* gemini_client.go:126-155 and youtube_client.go:225-257: the body of the
\* loop for one comment.  A GenerateResponse error and an empty sanitized
\* response go on to the next comment; dryRun logs instead of posting; an
\* error of PostComment is logged.
HandleComment ==
    /\ Comment <= Len(bIn)
    /\ LET response == bIn[Comment]
           sanitizedResponse == sanitizeMessageOf(bBy, response.text)
       IN  bLog' = Append(bLog,
                IF response.err
                THEN [generated |-> FALSE, sanitized |-> <<>>, posts |-> <<>>]
                ELSE [generated |-> TRUE, sanitized |-> sanitizedResponse,
                      posts |-> IF sanitizedResponse = <<>> \/ bDryRun
                                THEN <<>> ELSE <<sanitizedResponse>>])
    /\ UNCHANGED <<bBy, bDryRun, bIn>>
    /\ UNCHANGED <<sanVars, runVars, seqVars, sessVars, concVars, fetchVars, textVars,
                   lockVars, postVars, closeVars, orderVars, raceVars, chanVars, cursorVars>>

NextBatch == HandleComment

SpecBatch == InitBatch /\ [][NextBatch]_vars

(***************************************************************************)
(* The order of dispatch: the comments FetchLiveChatMessages returns       *)
(* (unnamed/part_006:237-275) in the loop of runLoop                       *)
(* (internal/pipeline/lowlatency.go:113-129)                               *)
(***************************************************************************)

InitOrder ==
    /\ oPc = "poll"
    /\ publishedAt \in [CommentIDs -> 0..MaxClock]
    /\ oSeen = <<>>
    /\ oComments = <<>>
    /\ oSubmitted = <<>>
    /\ SanOff
    /\ RunOff
    /\ SeqOff
    /\ SessOff
    /\ ConcOff
    /\ FetchOff
    /\ TextOff
    /\ LockOff
    /\ PostOff
    /\ CloseOff
    /\ BatchOff
    /\ RaceOff
    /\ ChanOff
    /\ CursorOff

\* lowlatency.go:86-111 with part_006:237-275: the poll succeeds; the source
\* lists its items in an order of its choice, and newComments keeps the
\* order of response.Items.
OrderPoll ==
    /\ oPc = "poll"
    /\ \E items \in ItemSeqs :
          LET r == FilterItems(items, oSeen, 0)
          IN  /\ oComments' = r.comments
              /\ oSeen' = r.ids
    /\ oSubmitted' = <<>>
    /\ oPc' = "loop"
    /\ UNCHANGED publishedAt
    /\ UNCHANGED <<sanVars, runVars, seqVars, sessVars, concVars, fetchVars, textVars,
                   lockVars, postVars, closeVars, batchVars, raceVars, chanVars, cursorVars>>

\* lowlatency.go:113-128: for _, comment := range comments; Send and
\* handleAIResponse for the next comment of the slice.
OrderSend ==
    /\ oPc = "loop"
    /\ oComments # <<>>
    /\ oSubmitted' = Append(oSubmitted, Head(oComments))
    /\ oComments' = Tail(oComments)
    /\ UNCHANGED <<oPc, publishedAt, oSeen>>
    /\ UNCHANGED <<sanVars, runVars, seqVars, sessVars, concVars, fetchVars, textVars,
                   lockVars, postVars, closeVars, batchVars, raceVars, chanVars, cursorVars>>

\* The loop is through; back to the select of runLoop.
OrderLoopEnds ==
    /\ oPc = "loop"
    /\ oComments = <<>>
    /\ oPc' = "poll"
    /\ UNCHANGED <<publishedAt, oSeen, oComments, oSubmitted>>
    /\ UNCHANGED <<sanVars, runVars, seqVars, sessVars, concVars, fetchVars, textVars,
                   lockVars, postVars, closeVars, batchVars, raceVars, chanVars, cursorVars>>

NextOrder ==
    \/ OrderPoll
    \/ OrderSend
    \/ OrderLoopEnds

SpecOrder == InitOrder /\ [][NextOrder]_vars

(***************************************************************************)
(* The polls of both pipelines on the youtube.Client of unnamed/part_006:  *)
(* what a failure of findLiveChatID leads to.  The comments a poll returns *)
(* and the session are left out.                                           *)
(***************************************************************************)

\* FetchLiveChatMessages that goes on to List with a handle it made up when
\* findLiveChatID fails.
FetchLiveChatMessagesListsAnyway(handle) ==
    {[err |-> o[1], handle |-> o[2], lookedUp |-> (handle = ""), listed |-> TRUE] :
        o \in {<<"nil", "chat">>, <<"failed", "chat">>, <<"ErrLiveChatEnded", "">>,
               <<"findFailed", "chat">>}}

\* part_006:201-232: what a call of FetchLiveChatMessages can come to with
\* liveChatID = handle: the error returned, liveChatID afterwards, whether
\* findLiveChatID and List were called.
FetchLiveChatMessages(handle) ==
    (IF handle = ""
     THEN {[err |-> "findFailed", handle |-> "", lookedUp |-> TRUE, listed |-> FALSE]}
     ELSE {})
    \cup
    {[err |-> o[1], handle |-> o[2], lookedUp |-> (handle = ""), listed |-> TRUE] :
        o \in {<<"nil", "chat">>, <<"failed", "chat">>, <<"ErrLiveChatEnded", "">>}}

\* The client after the call came to o.
Fetched(o) ==
    /\ liveChatID' = o.handle
    /\ nextPageToken' = IF o.err = "nil" THEN "next"
                        ELSE IF o.err = "ErrLiveChatEnded" THEN ""
                        ELSE nextPageToken
    /\ lastCall' = IF o.err = "nil"
                   THEN [err |-> "nil", lookedUp |-> o.lookedUp, listed |-> o.listed]
                   ELSE [err |-> o.err, comments |-> 0, interval |-> 0,
                         lookedUp |-> o.lookedUp, listed |-> o.listed]
    /\ UNCHANGED <<fPc, now, lastFetchedCommentIDs, lastSkipped, prevReturn,
                   lastReturn, endedAt>>

InitResolve ==
    /\ SanOff
    /\ SessOff
    /\ TextOff
    /\ LockOff
    /\ PostOff
    /\ CloseOff
    /\ BatchOff
    /\ OrderOff
    /\ cancelled = FALSE
    /\ runState = "running"
    /\ runResult = "none"
    /\ established = TRUE
    /\ closeCount = 0
    /\ fetchFails = 0
    /\ exchangeFailed = FALSE
    /\ movedOn = FALSE
    /\ \/ /\ pc = "select"
          /\ nextPollDelay = PollingInterval
          /\ cPc = "off"
          /\ pollPc = "idle"
       \/ /\ pc = "off"
          /\ nextPollDelay = 0
          /\ cPc = "loop"
          /\ pollPc = "tick"
    /\ sysInstr = FALSE
    /\ lastPoll = NoPoll
    /\ batch = 0
    /\ curEx = 0
    /\ pending = NoPending
    /\ rcvPc = "idle"
    /\ recvCount = 0
    /\ attempt = 0
    /\ waits = <<>>
    /\ cBatch = 0
    /\ errorChan = <<>>
    /\ postsPending = 0
    /\ fPc = "idle"
    /\ now = 0
    /\ liveChatID = ""
    /\ nextPageToken = ""
    /\ lastFetchedCommentIDs = <<>>
    /\ lastSkipped = {}
    /\ lastCall = NoCall
    /\ prevReturn = [id \in CommentIDs |-> Never]
    /\ lastReturn = [id \in CommentIDs |-> Never]
    /\ endedAt = Never
    /\ RaceOff
    /\ ChanOff
    /\ CursorOff

\* runLoop, lowlatency.go:86-111: the poll.  ErrLiveChatEnded sets the delay
\* to 30 s, any other error leaves it, and either way the loop continues
\* with the next time.After; a success takes the suggested interval.
ResolveSeqPoll ==
    /\ pc = "select"
    /\ \E o \in FetchLiveChatMessages(liveChatID), pollingInterval \in SuggestedIntervals :
          /\ o.err # "nil" => fetchFails < MaxFailStreak
          /\ Fetched(o)
          /\ Polled(o.err # "nil")
          /\ nextPollDelay' =
                IF o.err = "ErrLiveChatEnded" THEN rediscoveryDelay
                ELSE IF o.err = "nil" /\ pollingInterval > 0 THEN pollingInterval
                ELSE nextPollDelay
          /\ lastPoll' =
                [outcome |-> IF o.err = "nil" THEN "ok"
                             ELSE IF o.err = "ErrLiveChatEnded" THEN "ended"
                             ELSE "failed",
                 suggested |-> IF o.err = "nil" THEN pollingInterval ELSE 0,
                 waited |-> nextPollDelay]
    /\ UNCHANGED <<cancelled, runState, runResult, established, closeCount, exchangeFailed>>
    /\ UNCHANGED <<pc, sysInstr, batch, curEx, pending>>
    /\ UNCHANGED <<sanVars, textVars, lockVars, sessVars, concVars, postVars, closeVars,
                   batchVars, orderVars, raceVars, chanVars, cursorVars>>

\* handleLiveChatPollingAndInput, part_000:142-170: one attempt of the retry
\* loop.  Any error backs off before the last attempt and ends the loop
\* with err != nil after it.
ResolveConcFetch ==
    /\ pollPc = "fetch"
    /\ \E o \in FetchLiveChatMessages(liveChatID) :
          /\ Fetched(o)
          /\ Polled(o.err # "nil")
          /\ pollPc' = IF o.err = "nil" THEN "tick"
                       ELSE IF attempt < maxRetries - 1 THEN "backoff"
                       ELSE "escalate"
    /\ UNCHANGED <<cancelled, runState, runResult, established, closeCount, exchangeFailed>>
    /\ UNCHANGED <<cPc, rcvPc, recvCount, attempt, waits, cBatch, errorChan, postsPending>>
    /\ UNCHANGED <<sanVars, textVars, lockVars, seqVars, sessVars, postVars, closeVars,
                   batchVars, orderVars, raceVars, chanVars, cursorVars>>

NextResolve ==
    \/ ResolveSeqPoll
    \/ SeqReturnCancelled
    \/ ResolveConcFetch
    \/ PollTick
    \/ PollCancelled
    \/ PollBackoffOver
    \/ PollEscalate
    \/ ConcRunError
    \/ ConcRunCancelled
    \/ Cancel

SpecResolve == InitResolve /\ [][NextResolve]_vars

(***************************************************************************)
(* Claims about the sanitizers (SpecSan)                                   *)
(***************************************************************************)

\* C9: whatever string a sanitizer returns has at most cap = 500 codepoints,
\* for every input.
C9_SanitizedWithinCap ==
    sanOut.kind = "ok" => RuneCountInString(sanOut.text) <= youtubeMaxCommentLength

\* C9 witness: the pipeline sanitizer was given more than 500 codepoints and
\* returned exactly 500, the last three being the suffix.
C9_Witness ==
    /\ sanFn = "pipeline"
    /\ RuneCountInString(sanIn) > youtubeMaxCommentLength
    /\ sanOut.kind = "ok"
    /\ RuneCountInString(sanOut.text) = youtubeMaxCommentLength
    /\ SubSeq(sanOut.text, youtubeMaxCommentLength - 2, youtubeMaxCommentLength) = suffix

\* The text a sanitizer has when it reaches its length check.
CleanedText ==
    IF sanFn = "processor" THEN cleanedProcessor(sanIn) ELSE sanIn

\* C10 as claimed: the result is the cleaned text when that has at most 500
\* codepoints, and otherwise its first 497 codepoints followed by "...";
\* lengths are counted in codepoints.
C10_TruncationExact ==
    sanOut.kind = "ok" =>
        sanOut.text =
            IF RuneCountInString(CleanedText) > youtubeMaxCommentLength
            THEN SubSeq(CleanedText, 1, youtubeMaxCommentLength - Len(suffix)) \o suffix
            ELSE CleanedText

\* The sanitizer that ran, applied to x.
SanitizeBy(fn, x) ==
    CASE fn = "pipeline" -> sanitizeMessage(x)
      [] fn = "markdown" -> sanitizeMessageMarkdown(x)
      [] fn = "processor" -> sanitizeMessageProcessor(x)
      [] OTHER -> NoResult

NoMarkup(x) == \A i \in 1..Len(x) : x[i] # "BQ"

\* C11 as claimed: on an input of at most 500 codepoints the two pipeline
\* sanitizers return a text, sanitizing that text again returns the same
\* text, and an input without markup comes back unchanged or trimmed.
C11_IdempotentUnderCap ==
    (sanFn \in {"pipeline", "markdown"}
        /\ RuneCountInString(sanIn) <= youtubeMaxCommentLength) =>
        /\ sanOut.kind = "ok"
        /\ SanitizeBy(sanFn, sanOut.text) = sanOut
        /\ NoMarkup(sanIn) => sanOut.text \in {sanIn, TrimSpace(sanIn)}

(***************************************************************************)
(* Claims about the session and the sequential pipeline (SpecSeq)          *)
(***************************************************************************)

\* C1 as claimed: RecvResponse hands the caller at most one terminal signal
\* (a Done response, or Done with io.EOF) of any one exchange.
C1_OneTerminalPerExchange ==
    \A e \in Exchanges : termCount[e] <= 1

\* Exchanges that were sent and whose terminal signal has not been received.
InFlight == {e \in 1..nextEx : termCount[e] = 0}

\* C2 as claimed: the next Send is made only after the terminal signal of
\* the previous exchange was received, so at most one exchange is in flight.
C2_OneExchangeInFlight ==
    Cardinality(InFlight) <= 1

\* Run is blocked in RecvResponse: it waits for an AI response and neither
\* channel holds anything.
WaitingForResponse ==
    /\ runState = "running"
    /\ pc \in {"sysRecv", "recv"}
    /\ RecvResponse = {}

\* C6 as claimed: when the context is cancelled while Run waits for an AI
\* response, Run can return the cancellation cause without the response
\* having arrived.
C6_CancelEndsTheWait ==
    (cancelled /\ WaitingForResponse) => ENABLED SeqReturnCancelled

\* C15: after a poll that reported the chat ended, the delay before the
\* next poll is the rediscovery delay of 30 s, the loop is back at its
\* select, and Run has not returned for any reason but a cancellation.
C15_EndedWaitsRediscovery ==
    lastPoll.outcome = "ended" =>
        /\ nextPollDelay = rediscoveryDelay
        /\ nextPollDelay # PollingInterval
        /\ runState = "running" => pc = "select"
        /\ runState = "returned" => runResult = "cancelled"

C15_Witness ==
    /\ lastPoll.outcome = "ended"
    /\ lastPoll.waited = PollingInterval
    /\ nextPollDelay = rediscoveryDelay
    /\ runState = "running"

ReceiveUnitCanStep ==
    \/ ENABLED RcvResponse
    \/ ENABLED RcvError
    \/ ENABLED RcvSendError
    \/ ENABLED ConcRunResponse

PollUnitCanStep ==
    \/ ENABLED PollTick
    \/ ENABLED PollCancelled
    \/ ENABLED PollFetchOk
    \/ ENABLED PollFetchFail
    \/ ENABLED PollBackoffOver
    \/ ENABLED PollEscalate
    \/ ENABLED PollSend

\* C7 as claimed: once cancellation is signalled and Run has returned, no
\* goroutine is left blocked: each of handleReceive and the poll goroutine
\* has returned or can take its next step.
C7_NoUnitBlockedAfterCancel ==
    (cancelled /\ cPc = "returned") =>
        /\ rcvPc = "done" \/ ReceiveUnitCanStep
        /\ pollPc = "done" \/ PollUnitCanStep

C16_BackoffDoubles ==
    cPc # "off" =>
        /\ Len(waits) = attempt
        /\ \A k \in 1..Len(waits) : waits[k] = initialDelay * 2^(k - 1)
        /\ (pollPc = "sending" /\ attempt = maxRetries - 1) =>
               waits = <<initialDelay, 2 * initialDelay>>

C16_Witness ==
    /\ pollPc = "sending"
    /\ cBatch > 0
    /\ attempt = 2
    /\ waits = <<1, 2>>

(***************************************************************************)
(* Claims about FetchLiveChatMessages (SpecFetch)                          *)
(***************************************************************************)

RECURSIVE IsSubSeq(_, _)
IsSubSeq(a, b) ==
    IF a = <<>> THEN TRUE
    ELSE IF b = <<>> THEN FALSE
    ELSE IF Head(a) = Head(b) THEN IsSubSeq(Tail(a), Tail(b))
    ELSE IsSubSeq(a, Tail(b))

ItemIDs(items) == [i \in 1..Len(items) |-> items[i].id]

HasNoRepeat(q) == \A i, j \in 1..Len(q) : q[i] = q[j] => i = j

\* C3: two returns of one comment id are more than the retention apart,
\* whatever calls were made in between; and whatever the source answers
\* next, the call returns no id twice and returns some of the source's items
\* in the order the source gave them.
C3_NoRepeatWithinRetention ==
    /\ \A id \in CommentIDs :
          prevReturn[id] # Never =>
              lastReturn[id] - prevReturn[id] > commentIDRetentionDuration
    /\ fPc = "idle" =>
          \A items \in ItemSeqs :
              LET comments == FilterItems(items, lastFetchedCommentIDs, now).comments
              IN  /\ HasNoRepeat(comments)
                  /\ IsSubSeq(comments, ItemIDs(items))

\* The source repeated, within the retention, an id returned before a call
\* that reported the chat ended, and the call skipped it while returning
\* another comment.
C3_Witness ==
    /\ \E id \in CommentIDs : lastReturn[id] = now /\ id \notin lastSkipped
    /\ \E id \in lastSkipped :
          /\ lastReturn[id] # Never
          /\ lastReturn[id] < endedAt
          /\ now - lastReturn[id] <= commentIDRetentionDuration

(***************************************************************************)
(* Claims about the text of an exchange (SpecText)                         *)
(***************************************************************************)

\* The text the pipeline was handed for the exchange: that of the responses
\* with Done false, followed by that of the response with Done true.
DeliveredText == Concat(txEvents) \o txComplete.text

\* C12 as claimed: when an exchange has completed successfully, the text
\* handed to the pipeline is the concatenation, in order, of all the text
\* the provider streamed.
C12_DeliveredIsStreamed ==
    txComplete.done => DeliveredText = txStreamed

(***************************************************************************)
(* Claims about the session under concurrent callers (SpecLock)            *)
(***************************************************************************)

\* C13 as claimed: a Send starts a stream only when every earlier exchange
\* of the session has had its terminal event delivered.
C13_SendOnlyWhenIdle ==
    [][nextEx' # nextEx => InFlight = {}]_vars

NoStreamRunning ==
    \A e \in Exchanges : streams[e].pc \in {"unborn", "exited"}

\* C14 as claimed: the poll unit never waits to Send for the session mutex
\* while the receive unit holds it inside a RecvResponse that waits for a
\* signal no goroutine is left to give.
C14_SendNotBlockedByRecv ==
    ~(/\ pollPc = "sending"
      /\ mu = "recv"
      /\ rcvPc = "select"
      /\ RecvResponse = {}
      /\ NoStreamRunning)


(***************************************************************************)
(* Claims about the end of the live chat (SpecFetch)                       *)
(***************************************************************************)

\* A step of SpecFetch that is a call of FetchLiveChatMessages: the clock
\* stands still.
IsFetchCall == now' = now

\* C18: a call whose List reported the end of the live chat leaves liveChatID
\* and nextPageToken empty and returns ErrLiveChatEnded itself, with no
\* comments and a zero interval; the call after it calls findLiveChatID
\* before any listing.
C18_EndedResetsAndReturnsSentinel ==
    /\ [](lastCall.err = "ErrLiveChatEnded" =>
              /\ liveChatID = ""
              /\ nextPageToken = ""
              /\ lastCall.comments = 0
              /\ lastCall.interval = 0)
    /\ [][(lastCall.err = "ErrLiveChatEnded" /\ IsFetchCall) =>
              lastCall'.lookedUp]_vars

\* An established chat with recorded ids and a continuation token has just
\* been reported as ended.
C18_Witness ==
    /\ lastCall.err = "ErrLiveChatEnded"
    /\ ~lastCall.lookedUp
    /\ DOMAIN lastFetchedCommentIDs # {}
    /\ liveChatID = ""
    /\ nextPageToken = ""


\* Ids whose last return is no more than the retention before time t.
DeliveredInWindow(returns, t) ==
    {id \in CommentIDs :
        returns[id] # Never /\ t - returns[id] <= commentIDRetentionDuration}

\* C19: a successful call leaves in lastFetchedCommentIDs no entry recorded
\* more than the retention before the time of the call, and so no more
\* entries than comments were returned within the retention before it.
C19_NoEntryOlderThanRetention ==
    [][(IsFetchCall /\ lastCall'.err = "nil") =>
          /\ \A id \in DOMAIN lastFetchedCommentIDs' :
                 now' - lastFetchedCommentIDs'[id] <= commentIDRetentionDuration
          /\ Cardinality(DOMAIN lastFetchedCommentIDs') <=
                 Cardinality(DeliveredInWindow(lastReturn', now'))]_vars

\* A successful call has just dropped the entry of an id returned more than
\* the retention ago and kept a younger one.
C19_Witness ==
    /\ lastCall.err = "nil"
    /\ DOMAIN lastFetchedCommentIDs # {}
    /\ \E id \in CommentIDs :
          /\ lastReturn[id] # Never
          /\ now - lastReturn[id] > commentIDRetentionDuration
          /\ id \notin DOMAIN lastFetchedCommentIDs


(***************************************************************************)
(* Claims about what is posted (SpecPost)                                  *)
(***************************************************************************)

\* C20 as claimed: a response whose sanitized text is empty is not posted,
\* and every call of PostComment has for its argument the text the sanitizer
\* returned, which is not empty.
C20_PostsOnlyNonEmptySanitized ==
    /\ (postSan.kind = "ok" /\ postSan.text = <<>>) => ~postCall.made
    /\ postCall.made =>
          /\ postSan.kind = "ok"
          /\ postCall.text = postSan.text
          /\ postCall.text # <<>>


(***************************************************************************)
(* Claims about Close (SpecClose)                                          *)
(***************************************************************************)

\* C21: at every point, whatever the session is doing, a further Close can
\* be made at once; every Close returns without an error and changes nothing
\* of the session.
C21_CloseIdempotentAnywhere ==
    /\ []((closed.session # "none" /\ closed.calls < MaxCloses) => ENABLED Close)
    /\ [][closed'.calls > closed.calls =>
              /\ closed'.ret = "nil"
              /\ UNCHANGED <<sessVars, recvCount, mu, batchVars, orderVars, raceVars, chanVars, cursorVars>>]_vars

\* The second Close was made while RecvResponse held the mutex, an exchange
\* had been started and its terminal signal had not been received.
C21_Witness ==
    /\ closed.session = "geminiLiveSession"
    /\ closed.calls = 2
    /\ closed.ret = "nil"
    /\ mu = "recv"
    /\ nextEx = 1
    /\ termCount[1] = 0


(***************************************************************************)
(* Claims about a failing provider stream (SpecSeq)                        *)
(***************************************************************************)

\* C22 as claimed: the failure of an exchange's stream reaches the caller of
\* RecvResponse as a non-nil error, so the pipeline is never handed the
\* failure as a response with a nil error, to be posted.
C22_StreamFailureIsAnError ==
    pending.kind # "error"


(***************************************************************************)
(* Claims about the reuse of a session (SpecLock)                          *)
(***************************************************************************)

\* C23 as claimed: while the control loop of Run is running, the receive
\* unit has not stopped, so the response of a later exchange still has a
\* receiver.
C23_ReceiveUnitKeepsRunning ==
    (runState = "running" /\ cPc = "loop") => rcvPc # "done"


(***************************************************************************)
(* Claims about the dry run (SpecBatch)                                    *)
(***************************************************************************)

\* C24: for every comment handled, a generated response has been sanitized;
\* with dryRun no PostComment call has been made; without it, exactly one
\* has been made, with the sanitized response, when that is not empty, and
\* none otherwise.
C24_DryRunSuppressesPosting ==
    \A i \in 1..Len(bLog) :
        LET e == bLog[i]
        IN  /\ e.generated = ~bIn[i].err
            /\ e.generated => e.sanitized = sanitizeMessageOf(bBy, bIn[i].text)
            /\ bDryRun => e.posts = <<>>
            /\ ~bDryRun =>
                  e.posts = IF e.generated /\ e.sanitized # <<>>
                            THEN <<e.sanitized>> ELSE <<>>

\* A dry run has handled a whole batch of at least two comments, the first
\* with a response that is not empty once sanitized, another with one that is.
C24_Witness ==
    /\ bDryRun
    /\ Len(bLog) = Len(bIn)
    /\ Len(bLog) >= 2
    /\ bLog[1].generated /\ bLog[1].sanitized # <<>>
    /\ \E i \in 2..Len(bLog) : bLog[i].generated /\ bLog[i].sanitized = <<>>


(***************************************************************************)
(* Claims about the wait for a terminal event (SpecSeq)                    *)
(***************************************************************************)

\* The steps of Run's own goroutine in the sequential pipeline.
SeqUnitStep ==
    \/ SeqRunStart
    \/ SeqSysRecv
    \/ SeqReturnCancelled
    \/ SeqPollEnded
    \/ SeqPollError
    \/ SeqPollOk
    \/ SeqSend
    \/ SeqRecvResponse
    \/ SeqPost

\* C25 as claimed: while the poll/send unit waits for the terminal event of
\* the exchange it started, it has a step of its own that ends the wait, the
\* expiry of a fixed bound, whether or not the provider ever answers.
C25_WaitHasUpperBound ==
    (runState = "running" /\ pc = "recv") => ENABLED SeqUnitStep


(***************************************************************************)
(* Claims about posting (SpecSeq)                                          *)
(***************************************************************************)

\* C26 as claimed: while a PostComment call is pending and the poll has
\* returned a further comment, that comment can be submitted to the session.
C26_PostDoesNotDelayNextSend ==
    (runState = "running" /\ pc = "post" /\ batch > 1 /\ nextEx < MaxSends)
        => ENABLED SeqSend


(***************************************************************************)
(* Claims about the order of dispatch (SpecOrder)                          *)
(***************************************************************************)

\* C27 as claimed: of the comments of one poll, none is submitted to the
\* session after a comment that was published later, in whatever order the
\* source listed them.
C27_SubmittedInTimestampOrder ==
    \A i, j \in 1..Len(oSubmitted) :
        i < j => publishedAt[oSubmitted[i]] <= publishedAt[oSubmitted[j]]


(***************************************************************************)
(* Claims about a failed receive in the concurrent pipeline (SpecConc)     *)
(***************************************************************************)

\* C28: once handleReceive has returned on an error of RecvResponse, that
\* error is in errorChan or is what Run returned; while it is the error in
\* errorChan the control loop can take it; and when the control loop leaves
\* its loop with that error in errorChan, it is for a cancellation or Run
\* returns that error and closes the session.
C28_RecvErrorEndsRun ==
    /\ [](rcvPc = "done" =>
              ("recvError" \in Range(errorChan) \/ runResult = "recvError"))
    /\ []((cPc = "loop" /\ errorChan = <<"recvError">>) => ENABLED ConcRunError)
    /\ [][(cPc = "loop" /\ cPc' # "loop" /\ errorChan = <<"recvError">>) =>
              \/ cancelled
              \/ /\ runState' = "returned"
                 /\ runResult' = "recvError"
                 /\ closeCount' = closeCount + 1]_vars

\* Run has returned the error of the receive unit, without a cancellation,
\* and has closed the session.
C28_Witness ==
    /\ runState = "returned"
    /\ runResult = "recvError"
    /\ ~cancelled
    /\ rcvPc = "done"
    /\ closeCount = 1


(***************************************************************************)
(* Claims about a failure to resolve the live chat (SpecResolve)           *)
(***************************************************************************)

\* C29: a call in which findLiveChatID failed leaves liveChatID empty and has
\* not called List; the call after it calls findLiveChatID again; the
\* sequential Run does not return for it, and the concurrent Run gets a fatal
\* error only from the last attempt of a tick, after maxRetries failures in
\* a row.
C29_ResolveFailureIsRetried ==
    /\ [](lastCall.err = "findFailed" =>
              /\ liveChatID = ""
              /\ ~lastCall.listed
              /\ runState = "returned" => runResult \in {"cancelled", "pollFatal"})
    /\ []((runState = "returned" /\ pc # "off") => runResult = "cancelled")
    /\ []("pollFatal" \in Range(errorChan) \cup {runResult} =>
              (attempt = maxRetries - 1 /\ fetchFails >= maxRetries))
    /\ [][lastCall.err = "findFailed" => lastCall'.lookedUp]_vars

\* findLiveChatID has failed twice in a row in the sequential pipeline and
\* the loop is at its select for the next poll.
C29_Witness ==
    /\ pc = "select"
    /\ runState = "running"
    /\ lastCall.err = "findFailed"
    /\ fetchFails = 2
    /\ liveChatID = ""


(***************************************************************************)
(* The fields of the YouTube client under the two goroutines of the        *)
(* concurrent pipeline that use them: the poll unit, which calls           *)
(* FetchLiveChatMessages on every tick (part_000:142), and the goroutines  *)
(* Run starts for each response text, which call PostComment               *)
(* (part_000:75-80).  Client has no mutex and the two units share no       *)
(* channel, so an access of one is ordered with no access of the other.    *)
(* The poll unit stands at "assignID" or "clearID" while it stores to      *)
(* c.liveChatID; a load of the field made meanwhile is a data race, and    *)
(* of a two-word string it yields the old value, the new one, or a mix of  *)
(* the two ("torn").                                                       *)
(***************************************************************************)

MaxPosters == 2

MaxRacePolls == 3

otherFetchVars == <<fPc, now, lastFetchedCommentIDs, lastSkipped, lastCall,
                    prevReturn, lastReturn, endedAt>>

InitRace ==
    /\ SanOff
    /\ RunOff
    /\ SeqOff
    /\ SessOff
    /\ ConcOff
    /\ FetchOff
    /\ TextOff
    /\ LockOff
    /\ PostOff
    /\ CloseOff
    /\ BatchOff
    /\ OrderOff
    /\ rPollPc = "call"
    /\ rPolls = 0
    /\ rPost = <<>>
    /\ ChanOff
    /\ CursorOff

RaceUnchanged ==
    UNCHANGED <<sanVars, runVars, seqVars, sessVars, concVars, otherFetchVars,
                textVars, lockVars, postVars, closeVars, batchVars, orderVars, chanVars, cursorVars>>

\* part_006:201-209: the call starts; with an empty handle it resolves the
\* chat first, and returns the error when that fails.
RacePollCall ==
    /\ rPollPc = "call"
    /\ rPolls < MaxRacePolls
    /\ IF liveChatID = ""
       THEN \/ rPollPc' = "assignID"
            \/ rPollPc' = "return"
       ELSE rPollPc' = "list"
    /\ UNCHANGED <<liveChatID, nextPageToken, rPolls, rPost>>
    /\ RaceUnchanged

\* part_006:208: c.liveChatID = chatID.
RacePollAssign ==
    /\ rPollPc = "assignID"
    /\ liveChatID' = "chat"
    /\ rPollPc' = "list"
    /\ UNCHANGED <<nextPageToken, rPolls, rPost>>
    /\ RaceUnchanged

\* part_006:212-232, 268: List answers, says the chat has ended, or fails.
RacePollList ==
    /\ rPollPc = "list"
    /\ \/ /\ rPollPc' = "return"
          /\ nextPageToken' = "next"
       \/ /\ rPollPc' = "clearID"
          /\ UNCHANGED nextPageToken
       \/ /\ rPollPc' = "return"
          /\ UNCHANGED nextPageToken
    /\ UNCHANGED <<liveChatID, rPolls, rPost>>
    /\ RaceUnchanged

\* part_006:226-228: c.liveChatID = "" and c.nextPageToken = "".
RacePollClear ==
    /\ rPollPc = "clearID"
    /\ liveChatID' = ""
    /\ nextPageToken' = ""
    /\ rPollPc' = "return"
    /\ UNCHANGED <<rPolls, rPost>>
    /\ RaceUnchanged

\* part_000:142-170: the call has returned; the unit waits for the next tick.
RacePollReturn ==
    /\ rPollPc = "return"
    /\ rPollPc' = "call"
    /\ rPolls' = rPolls + 1
    /\ UNCHANGED <<liveChatID, nextPageToken, rPost>>
    /\ RaceUnchanged

\* part_000:75-80: Run starts a goroutine for a response text.
RaceDispatch ==
    /\ Len(rPost) < MaxPosters
    /\ rPost' = Append(rPost, [pc |-> "check", id |-> "none", ret |-> "none"])
    /\ UNCHANGED <<liveChatID, nextPageToken, rPollPc, rPolls>>
    /\ RaceUnchanged

\* What a load of c.liveChatID can yield in this state.
LoadLiveChatID ==
    IF rPollPc \in {"assignID", "clearID"}
    THEN {liveChatID, IF rPollPc = "assignID" THEN "chat" ELSE "", "torn"}
    ELSE {liveChatID}

\* part_006:314-316: if c.liveChatID == "" { return error }.
RacePostCheck(i) ==
    /\ rPost[i].pc = "check"
    /\ \E v \in LoadLiveChatID :
          rPost' = [rPost EXCEPT ![i] =
                       IF v = ""
                       THEN [pc |-> "done", id |-> "none", ret |-> "notSet"]
                       ELSE [pc |-> "build", id |-> "none", ret |-> "none"]]
    /\ UNCHANGED <<liveChatID, nextPageToken, rPollPc, rPolls>>
    /\ RaceUnchanged

\* part_006:319-327: LiveChatId: c.liveChatID, the second load of the field.
RacePostBuild(i) ==
    /\ rPost[i].pc = "build"
    /\ \E v \in LoadLiveChatID :
          rPost' = [rPost EXCEPT ![i] = [pc |-> "insert", id |-> v, ret |-> "none"]]
    /\ UNCHANGED <<liveChatID, nextPageToken, rPollPc, rPolls>>
    /\ RaceUnchanged

\* part_006:330-336: Insert is called with the message and answers.
RacePostInsert(i) ==
    /\ rPost[i].pc = "insert"
    /\ \E r \in {"nil", "failed"} :
          rPost' = [rPost EXCEPT ![i].pc = "done", ![i].ret = r]
    /\ UNCHANGED <<liveChatID, nextPageToken, rPollPc, rPolls>>
    /\ RaceUnchanged

RacePostStep ==
    \E i \in 1..Len(rPost) :
        \/ RacePostCheck(i)
        \/ RacePostBuild(i)
        \/ RacePostInsert(i)

NextRace ==
    \/ RacePollCall
    \/ RacePollAssign
    \/ RacePollList
    \/ RacePollClear
    \/ RacePollReturn
    \/ RaceDispatch
    \/ RacePostStep

SpecRace == InitRace /\ [][NextRace]_vars

\* C30: the live-chat handle is accessed by the poll unit only: no goroutine
\* that calls PostComment stands at a load of c.liveChatID while the poll
\* unit stands at a store to it, and the handle PostComment puts into the
\* message is the one it checked, a resolved handle.
C30_HandleAccessedByPollUnitOnly ==
    /\ ~(/\ rPollPc \in {"assignID", "clearID"}
         /\ \E i \in 1..Len(rPost) : rPost[i].pc \in {"check", "build"})
    /\ \A i \in 1..Len(rPost) : rPost[i].pc = "insert" => rPost[i].id = "chat"


\* C31: in the sequential pipeline the RecvResponse that follows Send of a
\* comment hands over the terminal signal of that very exchange, and the
\* response that goes on to be posted is the one generated for it: never a
\* leftover done signal or a response of an earlier exchange.
C31_ResponseBelongsToItsSend ==
    /\ [](pc = "post" => pending.ex = curEx)
    /\ [][(pc = "recv" /\ pc' # "recv") =>
              termCount'[curEx] = termCount[curEx] + 1]_vars


\* C32: when the provider stream of an exchange fails, nothing is posted
\* for that exchange: every call of PostComment made by handleAIResponse is
\* handed text the model generated, never the text of a stream failure.
C32_FailureTextIsNotPosted ==
    [][(pc = "post" /\ pc' # "post") => pending.kind = "text"]_vars


(***************************************************************************)
(* The channels of the streaming session, live.go:157-269.  Send and       *)
(* RecvResponse run under s.mu, so each is one step of its caller; the     *)
(* stream goroutine of a Send takes no lock and reads the field            *)
(* s.streamChan whenever it sends a chunk or runs its deferred close.  A   *)
(* close of a closed channel and a send on a closed channel are run-time   *)
(* panics, which end the program.                                          *)
(***************************************************************************)

MaxChanSends == 2     \* calls of Send on the session

MaxChanChunks == 1    \* chunks the provider streams in one exchange

InitChan ==
    /\ SanOff
    /\ RunOff
    /\ SeqOff
    /\ SessOff
    /\ ConcOff
    /\ FetchOff
    /\ TextOff
    /\ LockOff
    /\ PostOff
    /\ CloseOff
    /\ BatchOff
    /\ OrderOff
    /\ RaceOff
    /\ streamChan = 0
    /\ chClosed = {}
    /\ sDoneChan = <<>>
    /\ gor = <<>>
    /\ chPanic = "none"
    /\ CursorOff

ChanUnchanged ==
    UNCHANGED <<sanVars, runVars, seqVars, sessVars, concVars, fetchVars, textVars,
                lockVars, postVars, closeVars, batchVars, orderVars, raceVars, cursorVars>>

\* close(ch): the closed channels and the panic state afterwards.
CloseChan(ch) ==
    IF ch \in chClosed
    THEN /\ chPanic' = "close of closed channel"
         /\ UNCHANGED chClosed
    ELSE /\ chClosed' = chClosed \cup {ch}
         /\ UNCHANGED chPanic

\* Send, live.go:184-230: the non-blocking done signal, close of the
\* channel in the field, a new channel in the field, and the goroutine.
ChanSend ==
    /\ chPanic = "none"
    /\ Len(gor) < MaxChanSends
    /\ sDoneChan' = IF Len(sDoneChan) < 1 THEN Append(sDoneChan, "EOF") ELSE sDoneChan
    /\ CloseChan(streamChan)
    /\ IF streamChan \in chClosed
       THEN UNCHANGED <<streamChan, gor>>
       ELSE /\ streamChan' = Len(gor) + 1
            /\ gor' = Append(gor, [pc |-> "next", to |-> 0, chunks |-> 0])
    /\ ChanUnchanged

\* live.go:216-225: stream.Next() returns a chunk, iterator.Done or an
\* error; for a chunk the goroutine reads s.streamChan and starts to send.
GorNext(k) ==
    /\ chPanic = "none"
    /\ gor[k].pc = "next"
    /\ \/ /\ gor[k].chunks < MaxChanChunks
          /\ gor' = [gor EXCEPT ![k].pc = "send", ![k].to = streamChan,
                                ![k].chunks = @ + 1]
       \/ gor' = [gor EXCEPT ![k].pc = "deferDone"]
       \/ gor' = [gor EXCEPT ![k].pc = "errDone"]
    /\ UNCHANGED <<streamChan, chClosed, sDoneChan, chPanic>>
    /\ ChanUnchanged

\* live.go:225: s.streamChan <- resp while the channel is closed.
GorSendOnClosed(k) ==
    /\ chPanic = "none"
    /\ gor[k].pc = "send"
    /\ gor[k].to \in chClosed
    /\ chPanic' = "send on closed channel"
    /\ UNCHANGED <<streamChan, chClosed, sDoneChan, gor>>
    /\ ChanUnchanged

\* live.go:222: s.doneChan <- err; blocks while the slot is taken.
GorErrDone(k) ==
    /\ chPanic = "none"
    /\ gor[k].pc = "errDone"
    /\ Len(sDoneChan) < 1
    /\ sDoneChan' = Append(sDoneChan, "err")
    /\ gor' = [gor EXCEPT ![k].pc = "deferDone"]
    /\ UNCHANGED <<streamChan, chClosed, chPanic>>
    /\ ChanUnchanged

\* live.go:208: the deferred s.doneChan <- io.EOF; blocks while the slot
\* is taken.
GorDeferDone(k) ==
    /\ chPanic = "none"
    /\ gor[k].pc = "deferDone"
    /\ Len(sDoneChan) < 1
    /\ sDoneChan' = Append(sDoneChan, "EOF")
    /\ gor' = [gor EXCEPT ![k].pc = "deferClose"]
    /\ UNCHANGED <<streamChan, chClosed, chPanic>>
    /\ ChanUnchanged

\* live.go:209: the deferred close(s.streamChan), of the channel the field
\* holds at that moment.
GorDeferClose(k) ==
    /\ chPanic = "none"
    /\ gor[k].pc = "deferClose"
    /\ CloseChan(streamChan)
    /\ gor' = [gor EXCEPT ![k].pc = "exited"]
    /\ UNCHANGED <<streamChan, sDoneChan>>
    /\ ChanUnchanged

\* RecvResponse, live.go:233-269: the select takes the done signal, a chunk
\* a goroutine is sending on the channel of the field, or finds that
\* channel closed.
ChanRecvResponse ==
    /\ chPanic = "none"
    /\ \/ /\ sDoneChan # <<>>
          /\ sDoneChan' = Tail(sDoneChan)
          /\ UNCHANGED <<streamChan, chClosed, gor, chPanic>>
       \/ /\ streamChan \notin chClosed
          /\ \E k \in 1..Len(gor) :
                /\ gor[k].pc = "send"
                /\ gor[k].to = streamChan
                /\ gor' = [gor EXCEPT ![k].pc = "next"]
          /\ UNCHANGED <<streamChan, chClosed, sDoneChan, chPanic>>
       \/ /\ streamChan \in chClosed
          /\ UNCHANGED <<streamChan, chClosed, sDoneChan, gor, chPanic>>
    /\ ChanUnchanged

GorStep ==
    \E k \in 1..Len(gor) :
        \/ GorNext(k)
        \/ GorSendOnClosed(k)
        \/ GorErrDone(k)
        \/ GorDeferDone(k)
        \/ GorDeferClose(k)

NextChan ==
    \/ ChanSend
    \/ ChanRecvResponse
    \/ GorStep

SpecChan == InitChan /\ [][NextChan]_vars

\* C33: across any sequence of Send and RecvResponse calls on a streaming
\* session no channel is closed twice and nothing is sent on a closed
\* channel, so the program never panics on a channel operation; and a
\* goroutine that waits at its deferred done signal waits on a full slot
\* that a RecvResponse can empty.
C33_ChannelsClosedOnceNoSendOnClosed ==
    /\ chPanic = "none"
    /\ \A k \in 1..Len(gor) :
           (gor[k].pc = "deferDone" /\ Len(sDoneChan) = 1) => ENABLED ChanRecvResponse


(***************************************************************************)
(* The timestamp-cursor poller: YouTubeClient.FetchLiveChatMessages of     *)
(* internal/apis/youtube_client.go:110-166 (the same code is               *)
(* part_005:111-165).  Every call lists the chat from its start, since no  *)
(* page token is passed, and keeps the items published after               *)
(* lastCommentTime.                                                        *)
(***************************************************************************)

MaxCursorComments == 3    \* comments of the chat

CursorComments == 1..MaxCursorComments

InitCursor ==
    /\ SanOff
    /\ RunOff
    /\ SeqOff
    /\ SessOff
    /\ ConcOff
    /\ FetchOff
    /\ TextOff
    /\ LockOff
    /\ PostOff
    /\ CloseOff
    /\ BatchOff
    /\ OrderOff
    /\ RaceOff
    /\ ChanOff
    /\ tcOn = TRUE
    /\ lastCommentTime = 0
    /\ tcPublishedAt \in [CursorComments -> 1..MaxClock]
    /\ tcChat = {}
    /\ tcListed = {}
    /\ tcReturns = [id \in CursorComments |-> 0]

CursorUnchanged ==
    UNCHANGED <<sanVars, runVars, seqVars, sessVars, concVars, fetchVars, textVars,
                lockVars, postVars, closeVars, batchVars, orderVars, raceVars,
                chanVars>>

\* A viewer's comment appears in the chat.
CursorComment ==
    /\ tcOn
    /\ \E id \in CursorComments \ tcChat : tcChat' = tcChat \cup {id}
    /\ UNCHANGED <<tcOn, lastCommentTime, tcPublishedAt, tcListed, tcReturns>>
    /\ CursorUnchanged

\* The orders in which a response can list the comments of the chat.
Listings(chat) ==
    {items \in [1..Cardinality(chat) -> chat] :
        \A i, j \in 1..Cardinality(chat) : i # j => items[i] # items[j]}

\* youtube_client.go:136-157: the items published after lastCommentTime,
\* in the order of the response.
NewComments(items) ==
    SelectSeq(items, LAMBDA id : tcPublishedAt[id] > lastCommentTime)

\* youtube_client.go:123-165: a successful call.  lastCommentTime becomes
\* the time of the last comment appended.
CursorFetch ==
    /\ tcOn
    /\ \E items \in Listings(tcChat) :
          LET newComments == NewComments(items)
          IN  /\ lastCommentTime' =
                     IF Len(newComments) > 0
                     THEN tcPublishedAt[newComments[Len(newComments)]]
                     ELSE lastCommentTime
              /\ tcReturns' = [id \in CursorComments |->
                                  IF id \in Range(newComments)
                                  THEN tcReturns[id] + 1 ELSE tcReturns[id]]
    /\ tcListed' = tcListed \cup tcChat
    /\ UNCHANGED <<tcOn, tcPublishedAt, tcChat>>
    /\ CursorUnchanged

NextCursor ==
    \/ CursorComment
    \/ CursorFetch

SpecCursor == InitCursor /\ [][NextCursor]_vars

\* C34: across the successful calls of the timestamp-cursor poller every
\* comment that a call has listed was returned by exactly one call: none
\* was returned twice and none was left out, whatever the order of the
\* items and the publish times they share.
C34_EachListedCommentReturnedOnce ==
    \A id \in tcListed : tcReturns[id] = 1


(***************************************************************************)
(* The sequential pipeline against the Session interface: Run and runLoop  *)
(* handle an error of Send (lowlatency.go:59-61, 122-125), which the       *)
(* sessions of internal/gemini/live.go never return.  Here Send may fail;  *)
(* a failed Send starts no exchange.                                       *)
(***************************************************************************)

\* runLoop without the continue of lowlatency.go:124: handleAIResponse is
\* called after a failed Send as well.
SeqSendFailsWaits ==
    /\ pc = "send"
    /\ pc' = "recv"
    /\ exchangeFailed' = TRUE
    /\ UNCHANGED <<cancelled, runState, runResult, established, closeCount,
                   fetchFails, movedOn>>
    /\ UNCHANGED <<sysInstr, lastPoll, nextPollDelay, batch, curEx, pending>>
    /\ UNCHANGED <<sanVars, fetchVars, textVars, lockVars, sessVars, concVars,
                   postVars, closeVars, batchVars, orderVars, raceVars, chanVars,
                   cursorVars>>

\* Run, lowlatency.go:47-61: Send of the system instruction returns an
\* error; Run returns it, and the deferred Close runs.
SeqRunStartSendFails ==
    /\ pc = "start"
    /\ sysInstr
    /\ established' = TRUE
    /\ RunReturns("sendFailed")
    /\ pc' = "returned"
    /\ exchangeFailed' = TRUE
    /\ UNCHANGED <<cancelled, fetchFails, movedOn>>
    /\ UNCHANGED <<sysInstr, lastPoll, nextPollDelay, batch, curEx, pending>>
    /\ UNCHANGED <<sanVars, fetchVars, textVars, lockVars, sessVars, concVars,
                   postVars, closeVars, batchVars, orderVars, raceVars, chanVars,
                   cursorVars>>

\* runLoop, lowlatency.go:122-125: Send of a comment returns an error; it
\* is logged and the loop continues with the next comment.
SeqSendFails ==
    /\ pc = "send"
    /\ NextComment
    /\ exchangeFailed' = TRUE
    /\ UNCHANGED <<cancelled, runState, runResult, established, closeCount,
                   fetchFails, movedOn>>
    /\ UNCHANGED <<sysInstr, lastPoll, nextPollDelay, curEx, pending>>
    /\ UNCHANGED <<sanVars, fetchVars, textVars, lockVars, sessVars, concVars,
                   postVars, closeVars, batchVars, orderVars, raceVars, chanVars,
                   cursorVars>>

NextIface ==
    \/ SeqRunStart
    \/ SeqRunStartSendFails
    \/ SeqSysRecv
    \/ SeqReturnCancelled
    \/ SeqPollEnded
    \/ SeqPollError
    \/ SeqPollOk
    \/ SeqSend
    \/ SeqSendFails
    \/ SeqRecvResponse
    \/ SeqPost
    \/ StreamStep
    \/ Cancel

SpecIface == InitSeq /\ [][NextIface]_vars

\* C35: with a system instruction configured, the RecvResponse of Run
\* consumes the response of the instruction's exchange before anything else
\* happens: no comment is sent before it, that response is never posted,
\* and when Send of the instruction fails Run returns the error, closes the
\* session and has not polled.
C35_SystemInstructionHandledFirst ==
    /\ [][(pc = "sysRecv" /\ pc' # "sysRecv") =>
              /\ responseChan # <<>>
              /\ Head(responseChan).ex = 1
              /\ responseChan' = <<>>
              /\ termCount'[1] = 1
              /\ lastPoll = NoPoll]_vars
    /\ [][(sysInstr /\ nextEx >= 1 /\ nextEx' > nextEx) => termCount[1] >= 1]_vars
    /\ []((sysInstr /\ pc = "post") => pending.ex # 1)
    /\ [][(pc = "start" /\ sysInstr /\ nextEx' = nextEx /\ pc' # pc) =>
              /\ runState' = "returned"
              /\ runResult' = "sendFailed"
              /\ closeCount' = closeCount + 1
              /\ lastPoll' = NoPoll]_vars
    /\ [](runResult = "sendFailed" => (lastPoll = NoPoll /\ nextEx = 0))

C35_Witness ==
    /\ sysInstr
    /\ pc = "post"
    /\ pending.ex = 2
    /\ termCount[1] = 1


C37_ErrorLeavesRememberedIDs ==
    /\ [][(IsFetchCall /\ lastCall'.err # "nil") =>
              /\ lastFetchedCommentIDs' = lastFetchedCommentIDs
              /\ nextPageToken' # nextPageToken =>
                     (lastCall'.err = "ErrLiveChatEnded" /\ nextPageToken' = "")]_vars
    /\ [][(DOMAIN lastFetchedCommentIDs \ DOMAIN lastFetchedCommentIDs' # {}) =>
              (IsFetchCall /\ lastCall'.err = "nil")]_vars

\* A failed call has left an entry older than the retention in place.
C37_Witness ==
    /\ lastCall.err = "failed"
    /\ nextPageToken = "next"
    /\ \E id \in DOMAIN lastFetchedCommentIDs :
          now - lastFetchedCommentIDs[id] > commentIDRetentionDuration


\* The calls of RecvResponse that have returned.
RECURSIVE SumTo(_, _)
SumTo(f, n) == IF n = 0 THEN 0 ELSE f[n] + SumTo(f, n - 1)

RecvReturned == SumTo(termCount, MaxSends)

\* C38: in Run and runLoop RecvResponse is called exactly once for each
\* Send that returned nil and never for a Send that failed: a failed Send
\* of a comment starts no wait and the loop goes on to the next comment of
\* the same batch, or back to its select after the last one.
C38_OneRecvPerSuccessfulSend ==
    /\ [](RecvReturned + (IF pc \in {"sysRecv", "recv"} THEN 1 ELSE 0) = nextEx)
    /\ [][(pc = "send" /\ nextEx' = nextEx /\ <<pc, batch>>' # <<pc, batch>>) =>
              /\ batch' = batch - 1
              /\ pc' = IF batch > 1 THEN "send" ELSE "select"
              /\ UNCHANGED <<sessVars, pending>>]_vars
    /\ [][(pc # "recv" /\ pc' = "recv") => (pc = "send" /\ nextEx' = nextEx + 1)]_vars

\* The Send of the first comment of a batch of two has failed and the loop
\* is at the Send of the second, with no exchange started.
C38_Witness ==
    /\ ~sysInstr
    /\ exchangeFailed
    /\ nextEx = 0
    /\ pc = "send"
    /\ batch = 1
    /\ lastPoll.outcome = "ok"

=============================================================================
